---- MODULE Spec2Model ----
(***************************************************************************)
(* Geometry / windowing core of the canvas grid (packages/grid/src/Grid.tsx).*)
(*                                                                         *)
(* The size cache (instanceProps), resetAfterIndices, resizeColumns /      *)
(* resizeRows, the effect that clears the recalc lists and the two range   *)
(* calculators are translated from Grid.tsx.  The helpers Grid.tsx imports *)
(* from "./helpers" (getRowOffset, getRowHeight, getEstimatedTotalHeight,  *)
(* getRowStartIndexForOffset, getRowStopIndexForStartIndex and their       *)
(* column twins) are not part of the source tree; they are modelled from   *)
(* sections 4.1 and 4.2 of the specification, once for both axes.          *)
(***************************************************************************)
EXTENDS Integers, FiniteSets, Sequences, TLC

(***************************************************************************)
(* Bounds of the exploration.                                              *)
(***************************************************************************)
MaxCount == 3        \* rowCount and columnCount range over 0..MaxCount
MaxSize == 2         \* a size callback returns 0 (a hidden item) or MaxSize
MaxExtent == 3       \* container extents range over 0..MaxExtent
MaxOverscan == 2     \* overscanCount ranges over 0..MaxOverscan
MaxScroll == 7       \* scroll offsets range over 0..MaxScroll

(***************************************************************************)
(* Program constants.                                                      *)
(***************************************************************************)
DEFAULT_ESTIMATED_ITEM_SIZE == 50
Infinity == 1000     \* Math.min() of an empty argument list

Counts == 0..MaxCount
Indices == 0..(MaxCount - 1)     \* the indices of the largest grid
Sizes == {0, MaxSize}
\* rowHeight / columnWidth: a pure function of the index.  It is a prop, and
\* Grid.tsx hands the one of the current pass to every helper call.
\* The callback of a grid of count items is asked for indices below count.
ItemSizers(count) == [0..(count - 1) -> Sizes]
Extents == 0..MaxExtent
OverscanCounts == 0..MaxOverscan
ScrollOffsets == 0..MaxScroll
Undefined == -1000               \* an optional index that is not given
EmptyMap == [i \in {} |-> [offset |-> 0, size |-> 0]]

VARIABLES
  scale,                                          \* prop
  rowMetadataMap, columnMetadataMap,              \* instanceProps
  lastMeasuredRowIndex, lastMeasuredColumnIndex,  \* instanceProps
  recalcRowIndices, recalcColumnIndices,          \* instanceProps
  estimatedRowHeight, estimatedColumnWidth,       \* instanceProps
  scrollState,                                    \* useState<ScrollState>
  resetIsScrollingTimeoutID,                      \* ref: the pending debounce timer
  wheelingRef,                                    \* ref: the pending wheel frame
  verticalScrollRef, horizontalScrollRef,         \* scrollTop / scrollLeft of the scroll containers
  scrollEvents,                                   \* scroll events the containers have yet to dispatch
  timeouts,                                       \* requestTimeout: timers yet to fire
  frames,                                         \* window.requestAnimationFrame: callbacks yet to run
  elapsed, burst, transitions, inputs,            \* observers of the scroll history
  props,                                          \* the props of the grid
  latest,                                         \* observer: the coords of the last scroll-to request
  request,                                        \* observer: a scrollToItem call and what it found
  mergedCells,                                    \* prop: the list of merged regions
  mergedCellMap,                                  \* useMemo: cell -> the region that owns it
  drawn,                                          \* observer: the cells the last render pass drew
  lastQuery,                                      \* observer: the last range query and what it returned
  callerArrays                                    \* observer: the arrays the callers of resizeColumns / resizeRows hold

mergeVars == <<mergedCells, mergedCellMap, drawn, lastQuery, callerArrays>>

storeVars == <<scale, rowMetadataMap, columnMetadataMap,
               lastMeasuredRowIndex, lastMeasuredColumnIndex,
               recalcRowIndices, recalcColumnIndices,
               estimatedRowHeight, estimatedColumnWidth, mergeVars>>

timerVars == <<resetIsScrollingTimeoutID, timeouts>>
frameVars == <<wheelingRef, frames>>
domVars == <<verticalScrollRef, horizontalScrollRef, scrollEvents>>
historyVars == <<elapsed, burst, transitions, inputs>>
requestVars == <<props, latest, request>>
scrollVars == <<scrollState, timerVars, frameVars, domVars, historyVars, requestVars>>

vars == <<storeVars, scrollVars>>

propVars == <<scale, estimatedRowHeight, estimatedColumnWidth, mergeVars>>
rowVars == <<rowMetadataMap, lastMeasuredRowIndex, recalcRowIndices>>
columnVars == <<columnMetadataMap, lastMeasuredColumnIndex, recalcColumnIndices>>

Max2(a, b) == IF a >= b THEN a ELSE b
Min2(a, b) == IF a <= b THEN a ELSE b
\* Math.min(...indices): Infinity for an empty list
MathMin(S) == IF S = {} THEN Infinity ELSE CHOOSE m \in S : \A n \in S : m <= n

(***************************************************************************)
(* One axis of the Instance State, as the helpers see it.                  *)
(***************************************************************************)
Inst(map, last, recalc) ==
  [metadataMap |-> map, lastMeasuredIndex |-> last, recalcIndices |-> recalc]

rowInst == Inst(rowMetadataMap, lastMeasuredRowIndex, recalcRowIndices)
columnInst == Inst(columnMetadataMap, lastMeasuredColumnIndex, recalcColumnIndices)

(***************************************************************************)
(* Size Metadata Store (specification 4.1).                                *)
(***************************************************************************)
\* An index is stale from the time it is marked until the fill recomputes it.
\* Marking lowers lastMeasuredIndex below every marked index and the fill
\* raises it over every index it recomputes, so a marked index is stale
\* while it lies above lastMeasuredIndex.
isStale(inst, index) ==
  index \in inst.recalcIndices /\ index > inst.lastMeasuredIndex

\* offset[i] = offset[i-1] + size(i-1), memoized for i = from..index
RECURSIVE fillMetadata(_, _, _, _, _)
fillMetadata(map, i, index, itemSize, sc) ==
  IF i > index THEN map
  ELSE LET offset == IF i = 0 THEN 0 ELSE map[i - 1].offset + map[i - 1].size
           entry == [offset |-> offset, size |-> itemSize[i] * sc]
           next == (i :> entry) @@ map
       IN fillMetadata(next, i + 1, index, itemSize, sc)

\* getOffset: the Instance State after the query
getItemMetadata(inst, index, itemSize, sc) ==
  IF index <= inst.lastMeasuredIndex /\ ~isStale(inst, index)
  THEN inst
  ELSE [inst EXCEPT
          !.metadataMap = fillMetadata(inst.metadataMap, inst.lastMeasuredIndex + 1,
                                       index, itemSize, sc),
          !.lastMeasuredIndex = Max2(inst.lastMeasuredIndex, index)]

\* getOffset: the value returned
getOffset(inst, index, itemSize, sc) ==
  getItemMetadata(inst, index, itemSize, sc).metadataMap[index].offset

\* getSize: the entry's size if known and not stale, else the estimate
getSize(inst, index, estimatedItemSize) ==
  IF index <= inst.lastMeasuredIndex /\ ~isStale(inst, index)
  THEN inst.metadataMap[index].size
  ELSE estimatedItemSize

\* getEstimatedTotal
getEstimatedTotal(inst, count, estimatedItemSize) ==
  LET last == inst.lastMeasuredIndex
      measured == IF last >= 0
                  THEN inst.metadataMap[last].offset + inst.metadataMap[last].size
                  ELSE 0
  IN IF last < count - 1
     THEN measured + estimatedItemSize * (count - last - 1)
     ELSE IF count = 0 THEN 0
          ELSE inst.metadataMap[count - 1].offset + inst.metadataMap[count - 1].size

(***************************************************************************)
(* Offset/Index Resolver (specification 4.2).                              *)
(***************************************************************************)
\* binary search over cached offsets: the last index in low..high whose
\* offset is at or before the target
\* variant: an item that starts exactly at the target is passed over
RECURSIVE binarySearch_strict(_, _, _, _)
binarySearch_strict(map, low, high, offset) ==
  IF low > high THEN Max2(0, low - 1)
  ELSE LET middle == low + ((high - low) \div 2)
       IN IF map[middle].offset < offset
          THEN binarySearch_strict(map, middle + 1, high, offset)
          ELSE binarySearch_strict(map, low, middle - 1, offset)

RECURSIVE binarySearch(_, _, _, _)
binarySearch(map, low, high, offset) ==
  IF low > high THEN Max2(0, low - 1)
  ELSE LET middle == low + ((high - low) \div 2)
       IN IF map[middle].offset <= offset
          THEN binarySearch(map, middle + 1, high, offset)
          ELSE binarySearch(map, low, middle - 1, offset)

\* exponential probe beyond the measured prefix, extending the Store until
\* an item starts past the target or the last item is reached
RECURSIVE exponentialProbe(_, _, _, _, _, _, _, _)
exponentialProbe(inst, low, index, interval, offset, count, itemSize, sc) ==
  LET probed == getItemMetadata(inst, index, itemSize, sc)
  IN IF index < count - 1 /\ probed.metadataMap[index].offset <= offset
     THEN exponentialProbe(probed, index, Min2(count - 1, index + interval),
                           interval * 2, offset, count, itemSize, sc)
     ELSE [inst |-> probed,
           index |-> binarySearch(probed.metadataMap, low, index, offset)]

\* variant: the search trusts every cached entry, also those left above
\* lastMeasuredIndex by an invalidation
indexForOffset_trustsLeftovers(inst, offset, count, itemSize, sc) ==
  IF count = 0 THEN [inst |-> inst, index |-> 0]
  ELSE LET target == Max2(0, offset)
           cached == Cardinality(DOMAIN inst.metadataMap) - 1
           high == Min2(cached, count - 1)
       IN IF high >= 0 /\ inst.metadataMap[high].offset > target
          THEN [inst |-> inst, index |-> binarySearch(inst.metadataMap, 0, high, target)]
          ELSE exponentialProbe(inst, Max2(0, high), Max2(0, high), 1, target,
                                count, itemSize, sc)

\* the smallest index whose [offset, offset + size) contains the target
indexForOffset(inst, offset, count, itemSize, sc) ==
  IF count = 0 THEN [inst |-> inst, index |-> 0]
  ELSE LET target == Max2(0, offset)
           high == Min2(inst.lastMeasuredIndex, count - 1)
       IN IF high >= 0 /\ inst.metadataMap[high].offset > target
          THEN [inst |-> inst, index |-> binarySearch(inst.metadataMap, 0, high, target)]
          ELSE exponentialProbe(inst, Max2(0, high), Max2(0, high), 1, target,
                                count, itemSize, sc)

\* variant: the walk goes on while stopIndex < count
RECURSIVE walkForward_pastLast(_, _, _, _, _, _, _)
walkForward_pastLast(inst, stopIndex, offset, maxOffset, count, itemSize, sc) ==
  IF stopIndex < count /\ offset < maxOffset
  THEN LET next == getItemMetadata(inst, stopIndex + 1, itemSize, sc)
       IN walkForward_pastLast(next, stopIndex + 1,
                               offset + next.metadataMap[stopIndex + 1].size,
                               maxOffset, count, itemSize, sc)
  ELSE [inst |-> inst, index |-> stopIndex]

\* the walk: one more item while the last item is not reached and the
\* accumulated extent is short of the trailing edge of the viewport
RECURSIVE walkForward(_, _, _, _, _, _, _)
walkForward(inst, stopIndex, offset, maxOffset, count, itemSize, sc) ==
  IF stopIndex < count - 1 /\ offset < maxOffset
  THEN LET next == getItemMetadata(inst, stopIndex + 1, itemSize, sc)
       IN walkForward(next, stopIndex + 1,
                      offset + next.metadataMap[stopIndex + 1].size,
                      maxOffset, count, itemSize, sc)
  ELSE [inst |-> inst, index |-> stopIndex]

\* variant: the scroll offset is taken as given, negative or not
stopIndexForStart_unclamped(inst, startIndex, scrollOffset, containerExtent, count, itemSize, sc) ==
  IF count = 0 THEN [inst |-> inst, index |-> 0]
  ELSE LET first == getItemMetadata(inst, startIndex, itemSize, sc)
           entry == first.metadataMap[startIndex]
       IN walkForward(first, startIndex, entry.offset + entry.size,
                      scrollOffset + containerExtent, count, itemSize, sc)

\* a negative scroll offset is clamped to 0 (specification 4.2, edge cases)
stopIndexForStart(inst, startIndex, scrollOffset, containerExtent, count, itemSize, sc) ==
  IF count = 0 THEN [inst |-> inst, index |-> 0]
  ELSE LET first == getItemMetadata(inst, startIndex, itemSize, sc)
           entry == first.metadataMap[startIndex]
       IN walkForward(first, startIndex, entry.offset + entry.size,
                      Max2(0, scrollOffset) + containerExtent, count, itemSize, sc)

(***************************************************************************)
(* Grid.tsx: resetAfterIndices, on the pair of axes.                       *)
(***************************************************************************)
\* variant: lastMeasuredIndex is set to index - 1 without the Math.min
resetAfterIndices_noMin(column, row, columnIndex, rowIndex) ==
  [column |-> IF columnIndex # Undefined
              THEN [column EXCEPT
                      !.recalcIndices = {},
                      !.lastMeasuredIndex = columnIndex - 1]
              ELSE column,
   row |-> IF rowIndex # Undefined
           THEN [row EXCEPT
                   !.recalcIndices = {},
                   !.lastMeasuredIndex = rowIndex - 1]
           ELSE row]

\* variant: the row branch tests columnIndex
resetAfterIndices_rowTestsColumn(column, row, columnIndex, rowIndex) ==
  [column |-> IF columnIndex # Undefined
              THEN [column EXCEPT
                      !.recalcIndices = {},
                      !.lastMeasuredIndex = Min2(column.lastMeasuredIndex, columnIndex - 1)]
              ELSE column,
   row |-> IF columnIndex # Undefined
           THEN [row EXCEPT
                   !.recalcIndices = {},
                   !.lastMeasuredIndex = Min2(row.lastMeasuredIndex, rowIndex - 1)]
           ELSE row]

\* variant: the given index itself stays measured
resetAfterIndices_keepsIndex(column, row, columnIndex, rowIndex) ==
  [column |-> IF columnIndex # Undefined
              THEN [column EXCEPT
                      !.recalcIndices = {},
                      !.lastMeasuredIndex = Min2(column.lastMeasuredIndex, columnIndex)]
              ELSE column,
   row |-> IF rowIndex # Undefined
           THEN [row EXCEPT
                   !.recalcIndices = {},
                   !.lastMeasuredIndex = Min2(row.lastMeasuredIndex, rowIndex)]
           ELSE row]

\* variant: the current lastMeasuredIndex is lowered as well
resetAfterIndices_belowCurrent(column, row, columnIndex, rowIndex) ==
  [column |-> IF columnIndex # Undefined
              THEN [column EXCEPT
                      !.recalcIndices = {},
                      !.lastMeasuredIndex = Min2(column.lastMeasuredIndex - 1, columnIndex - 1)]
              ELSE column,
   row |-> IF rowIndex # Undefined
           THEN [row EXCEPT
                   !.recalcIndices = {},
                   !.lastMeasuredIndex = Min2(row.lastMeasuredIndex - 1, rowIndex - 1)]
           ELSE row]

\* variant: the index before the given one is taken as stale as well
resetAfterIndices_oneMore(column, row, columnIndex, rowIndex) ==
  [column |-> IF columnIndex # Undefined
              THEN [column EXCEPT
                      !.recalcIndices = {},
                      !.lastMeasuredIndex = Min2(column.lastMeasuredIndex, columnIndex - 2)]
              ELSE column,
   row |-> IF rowIndex # Undefined
           THEN [row EXCEPT
                   !.recalcIndices = {},
                   !.lastMeasuredIndex = Min2(row.lastMeasuredIndex, rowIndex - 2)]
           ELSE row]

resetAfterIndices(column, row, columnIndex, rowIndex) ==
  [column |-> IF columnIndex # Undefined
              THEN [column EXCEPT
                      !.recalcIndices = {},
                      !.lastMeasuredIndex = Min2(column.lastMeasuredIndex, columnIndex - 1)]
              ELSE column,
   row |-> IF rowIndex # Undefined
           THEN [row EXCEPT
                   !.recalcIndices = {},
                   !.lastMeasuredIndex = Min2(row.lastMeasuredIndex, rowIndex - 1)]
           ELSE row]

\* Grid.tsx: resizeColumns
resizeColumns(column, row, indices) ==
  LET leftMost == MathMin(indices)
      reset == resetAfterIndices(column, row, leftMost, Undefined)
  IN [reset EXCEPT !.column.recalcIndices = indices]

\* variant: the reset starts from the bottom-most resized row
resizeRows_bottomMost(column, row, indices) ==
  LET bottomMost == IF indices = {} THEN Infinity
                    ELSE CHOOSE m \in indices : \A n \in indices : m >= n
      reset == resetAfterIndices(column, row, Undefined, bottomMost)
  IN [reset EXCEPT !.row.recalcIndices = indices]

\* Grid.tsx: resizeRows
resizeRows(column, row, indices) ==
  LET topMost == MathMin(indices)
      reset == resetAfterIndices(column, row, Undefined, topMost)
  IN [reset EXCEPT !.row.recalcIndices = indices]

(***************************************************************************)
(* Grid.tsx: the range calculators.  The item count, the size callback,    *)
(* scroll offset, container extent, isScrolling, scroll direction and      *)
(* overscanCount are the props and scroll state of the render pass.        *)
(***************************************************************************)
\* variant: the stop index is not clamped to the last row
getVerticalRangeToRender_unclamped(rowCount, rowHeight, scrollTop, containerHeight, isScrolling, verticalScrollDirection, overscanCount) ==
  LET start == indexForOffset(rowInst, scrollTop, rowCount, rowHeight, scale)
      startIndex == start.index
      stop == stopIndexForStart(start.inst, startIndex, scrollTop, containerHeight,
                                rowCount, rowHeight, scale)
      stopIndex == stop.index
      overscanBackward == IF ~isScrolling \/ verticalScrollDirection = "Up"
                          THEN Max2(1, overscanCount) ELSE 1
      overscanForward == IF ~isScrolling \/ verticalScrollDirection = "Down"
                         THEN Max2(1, overscanCount) ELSE 1
  IN [inst |-> stop.inst,
      range |-> << Max2(0, startIndex - overscanBackward),
                   Max2(0, stopIndex + overscanForward),
                   startIndex,
                   stopIndex >>]

\* variant: the stop index is sought from the top of the content, not from scrollTop
getVerticalRangeToRender_stopFromTop(rowCount, rowHeight, scrollTop, containerHeight, isScrolling, verticalScrollDirection, overscanCount) ==
  LET start == indexForOffset(rowInst, scrollTop, rowCount, rowHeight, scale)
      startIndex == start.index
      stop == stopIndexForStart(start.inst, startIndex, 0, containerHeight,
                                rowCount, rowHeight, scale)
      stopIndex == stop.index
      overscanBackward == IF ~isScrolling \/ verticalScrollDirection = "Up"
                          THEN Max2(1, overscanCount) ELSE 1
      overscanForward == IF ~isScrolling \/ verticalScrollDirection = "Down"
                         THEN Max2(1, overscanCount) ELSE 1
  IN [inst |-> stop.inst,
      range |-> << Max2(0, startIndex - overscanBackward),
                   Max2(0, Min2(rowCount - 1, stopIndex + overscanForward)),
                   startIndex,
                   stopIndex >>]

getVerticalRangeToRender(rowCount, rowHeight, scrollTop, containerHeight, isScrolling, verticalScrollDirection, overscanCount) ==
  LET start == indexForOffset(rowInst, scrollTop, rowCount, rowHeight, scale)
      startIndex == start.index
      stop == stopIndexForStart(start.inst, startIndex, scrollTop, containerHeight,
                                rowCount, rowHeight, scale)
      stopIndex == stop.index
      overscanBackward == IF ~isScrolling \/ verticalScrollDirection = "Up"
                          THEN Max2(1, overscanCount) ELSE 1
      overscanForward == IF ~isScrolling \/ verticalScrollDirection = "Down"
                         THEN Max2(1, overscanCount) ELSE 1
  IN [inst |-> stop.inst,
      range |-> << Max2(0, startIndex - overscanBackward),
                   Max2(0, Min2(rowCount - 1, stopIndex + overscanForward)),
                   startIndex,
                   stopIndex >>]

\* variant: the overscan does not depend on the scroll direction
getHorizontalRangeToRender_symmetric(columnCount, columnWidth, scrollLeft, containerWidth, isScrolling, horizontalScrollDirection, overscanCount) ==
  LET start == indexForOffset(columnInst, scrollLeft, columnCount, columnWidth, scale)
      startIndex == start.index
      stop == stopIndexForStart(start.inst, startIndex, scrollLeft, containerWidth,
                                columnCount, columnWidth, scale)
      stopIndex == stop.index
      overscanBackward == Max2(1, overscanCount)
      overscanForward == Max2(1, overscanCount)
  IN [inst |-> stop.inst,
      range |-> << Max2(0, startIndex - overscanBackward),
                   Max2(0, Min2(columnCount - 1, stopIndex + overscanForward)),
                   startIndex,
                   stopIndex >>]

getHorizontalRangeToRender(columnCount, columnWidth, scrollLeft, containerWidth, isScrolling, horizontalScrollDirection, overscanCount) ==
  LET start == indexForOffset(columnInst, scrollLeft, columnCount, columnWidth, scale)
      startIndex == start.index
      stop == stopIndexForStart(start.inst, startIndex, scrollLeft, containerWidth,
                                columnCount, columnWidth, scale)
      stopIndex == stop.index
      overscanBackward == IF ~isScrolling \/ horizontalScrollDirection = "Left"
                          THEN Max2(1, overscanCount) ELSE 1
      overscanForward == IF ~isScrolling \/ horizontalScrollDirection = "Right"
                         THEN Max2(1, overscanCount) ELSE 1
  IN [inst |-> stop.inst,
      range |-> << Max2(0, startIndex - overscanBackward),
                   Max2(0, Min2(columnCount - 1, stopIndex + overscanForward)),
                   startIndex,
                   stopIndex >>]

\* variant: the total height is taken from the column axis
estimatedTotalHeight_ofColumns(rowCount) ==
  getEstimatedTotal(columnInst, rowCount, estimatedColumnWidth)

\* Grid.tsx: estimatedTotalHeight / estimatedTotalWidth of a pass
estimatedTotalHeight(rowCount) == getEstimatedTotal(rowInst, rowCount, estimatedRowHeight)
estimatedTotalWidth(columnCount) ==
  getEstimatedTotal(columnInst, columnCount, estimatedColumnWidth)

(***************************************************************************)
(* Scrolling: the scroll state, the debounce that clears isScrolling, the  *)
(* wheel handler and the animation frames.  The grid is rendered with its  *)
(* scroll containers (showScrollbar) and without snapping, the defaults;   *)
(* a grid that snaps is rendered with the snap prop.                       *)
(* requestTimeout / cancelTimeout are imported from "./helpers"; they are  *)
(* modelled from section 5 of the specification as a cancellable timer     *)
(* that fires when its fixed delay has elapsed.                            *)
(***************************************************************************)
RESET_SCROLL_EVENTS_DEBOUNCE_INTERVAL == 150
scrollbarSize == 13
Null == -2000                    \* a ref that holds null

\* the props of a grid constructed with none given
DefaultProps ==
  [rowCount |-> 0, columnCount |-> 0,
   rowHeight |-> [i \in {} |-> 20], columnWidth |-> [i \in {} |-> 60],
   frozenRows |-> 0, frozenColumns |-> 0,
   containerHeight |-> 600, containerWidth |-> 800,
   overscanCount |-> 1, showScrollbar |-> TRUE, snap |-> FALSE]
showScrollbar == props.showScrollbar
snap == props.snap

MaxPosition == 2     \* the scroll containers scroll over 0..MaxPosition
MaxDelta == 1        \* wheel deltas range over -MaxDelta..MaxDelta
MaxTick == 50        \* one step of time advances it by at most MaxTick
MaxInputs == 3       \* user inputs (drags of a scrollbar, wheel events) of a behaviour

Positions == 0..MaxPosition
Deltas == (0 - MaxDelta)..MaxDelta
Abs(a) == IF a < 0 THEN 0 - a ELSE a

\* an id no pending timer or frame holds (ids are positive)
freshId(used) == CHOOSE id \in 1..(Cardinality(used) + 1) : id \notin used

NoTimeouts == [id \in {} |-> 0]
\* requestTimeout(callback, delay): the timer's id and the pending timers
requestTimeout(pending, delay) ==
  LET id == freshId(DOMAIN pending)
  IN [id |-> id, timeouts |-> (id :> delay) @@ pending]
cancelTimeout(pending, id) == [i \in DOMAIN pending \ {id} |-> pending[i]]

\* variant: the pending timer is not cancelled
resetIsScrollingDebounced_noCancel(timeoutID, pending) ==
  LET requested == requestTimeout(pending, RESET_SCROLL_EVENTS_DEBOUNCE_INTERVAL)
  IN [resetIsScrollingTimeoutID |-> requested.id, timeouts |-> requested.timeouts]

resetIsScrollingDebounced(timeoutID, pending) ==
  LET cancelled == IF timeoutID # Null THEN cancelTimeout(pending, timeoutID) ELSE pending
      requested == requestTimeout(cancelled, RESET_SCROLL_EVENTS_DEBOUNCE_INTERVAL)
  IN [resetIsScrollingTimeoutID |-> requested.id, timeouts |-> requested.timeouts]

\* a callback window.requestAnimationFrame holds: the wheel adjustment
\* (isHorizontal, value) or a deferred scrollTo (scrollLeft, scrollTop)
Frame(id, kind, isHorizontal, value, left, top) ==
  [id |-> id, kind |-> kind, isHorizontal |-> isHorizontal, value |-> value,
   scrollLeft |-> left, scrollTop |-> top]
frameIds(queue) == {queue[i].id : i \in 1..Len(queue)}

\* assignment to scrollTop / scrollLeft of a scroll container: the container
\* keeps the value within its scrollable range
setScrollOffset(value) == Max2(0, Min2(MaxPosition, value))

\* snapToRowFn: the vertical container moves by the height of the next row,
\* rowHeight standing for getRowHeight(nextRowIndex, instanceProps.current)
snapToRowFn(deltaY, rowHeight, top) ==
  IF ~showScrollbar \/ deltaY = 0 THEN top
  ELSE setScrollOffset(top + (IF deltaY < 0 THEN -1 ELSE 1) * rowHeight)
\* snapToColumnFn: the horizontal container moves by the width of the next column
snapToColumnFn(deltaX, columnWidth, left) ==
  IF ~showScrollbar \/ deltaX = 0 THEN left
  ELSE setScrollOffset(left + (IF deltaX < 0 THEN -1 ELSE 1) * columnWidth)

\* variant: equal deltas scroll horizontally
handleWheel_tieHorizontal(deltaX, deltaY, deltaMode, wheeling, queue, left, top) ==
  IF wheeling # Null \/ ~showScrollbar
  THEN [wheelingRef |-> wheeling, frames |-> queue]
  ELSE LET isHorizontal == Abs(deltaX) >= Abs(deltaY)
           dy == IF deltaMode = 1 THEN deltaY * scrollbarSize ELSE deltaY
           currentScroll == IF isHorizontal THEN left ELSE top
           id == freshId(frameIds(queue))
           value == currentScroll + (IF isHorizontal THEN deltaX ELSE dy)
       IN [wheelingRef |-> id,
           frames |-> Append(queue, Frame(id, "wheel", isHorizontal, value,
                                          Undefined, Undefined))]

\* variant: no pending-frame guard
handleWheel_noGuard(deltaX, deltaY, deltaMode, wheeling, queue, left, top) ==
  IF ~showScrollbar
  THEN [wheelingRef |-> wheeling, frames |-> queue]
  ELSE LET isHorizontal == Abs(deltaX) > Abs(deltaY)
           dy == IF deltaMode = 1 THEN deltaY * scrollbarSize ELSE deltaY
           currentScroll == IF isHorizontal THEN left ELSE top
           id == freshId(frameIds(queue))
           value == currentScroll + (IF isHorizontal THEN deltaX ELSE dy)
       IN [wheelingRef |-> id,
           frames |-> Append(queue, Frame(id, "wheel", isHorizontal, value,
                                          Undefined, Undefined))]

\* handleWheel, "Scroll natively": the refs after the event
handleWheel(deltaX, deltaY, deltaMode, wheeling, queue, left, top) ==
  IF wheeling # Null \/ ~showScrollbar
  THEN [wheelingRef |-> wheeling, frames |-> queue]
  ELSE LET isHorizontal == Abs(deltaX) > Abs(deltaY)
           dy == IF deltaMode = 1 THEN deltaY * scrollbarSize ELSE deltaY
           currentScroll == IF isHorizontal THEN left ELSE top
           id == freshId(frameIds(queue))
           value == currentScroll + (IF isHorizontal THEN deltaX ELSE dy)
       IN [wheelingRef |-> id,
           frames |-> Append(queue, Frame(id, "wheel", isHorizontal, value,
                                          Undefined, Undefined))]

InitScroll ==
  /\ scrollState = [scrollTop |-> 0, scrollLeft |-> 0, isScrolling |-> FALSE,
                    verticalScrollDirection |-> "Down",
                    horizontalScrollDirection |-> "Right"]
  /\ resetIsScrollingTimeoutID = Null
  /\ wheelingRef = Null
  /\ verticalScrollRef = 0
  /\ horizontalScrollRef = 0
  /\ scrollEvents = {}
  /\ timeouts = NoTimeouts
  /\ frames = <<>>
  /\ elapsed = RESET_SCROLL_EVENTS_DEBOUNCE_INTERVAL
  /\ burst = 0
  /\ transitions = 0
  /\ inputs = 0

(***************************************************************************)
(* Merged-Cell Resolver (specification 4.4).  getBoundedCells and          *)
(* cellIdentifier are imported from "./helpers"; they are modelled from    *)
(* the specification: the cells inside the inclusive bounds of a region,   *)
(* and the composite key (rowIndex, columnIndex).                          *)
(***************************************************************************)
MaxRegions == 2      \* a merged-region list holds at most MaxRegions regions

\* AreaProps
Area(top, left, bottom, right) ==
  [top |-> top, left |-> left, bottom |-> bottom, right |-> right]

\* the rectangular regions of the largest grid
Regions ==
  {Area(top, left, bottom, right) :
     top \in Indices, left \in Indices, bottom \in Indices, right \in Indices}
  \cap {region \in [top : Indices, left : Indices, bottom : Indices, right : Indices] :
          region.top <= region.bottom /\ region.left <= region.right}

\* mergedCells: the lists of regions
RegionLists == UNION {[1..n -> Regions] : n \in 0..MaxRegions}

cellIdentifier(rowIndex, columnIndex) == <<rowIndex, columnIndex>>

getBoundedCells(bounds) ==
  {cellIdentifier(rowIndex, columnIndex) :
     rowIndex \in bounds.top..bounds.bottom, columnIndex \in bounds.left..bounds.right}

\* the regions of a list are pairwise disjoint
NonOverlapping(regions) ==
  \A i \in 1..Len(regions), j \in 1..Len(regions) :
    i # j => getBoundedCells(regions[i]) \cap getBoundedCells(regions[j]) = {}

\* new Map()
NoCells == [cell \in {} |-> Area(0, 0, 0, 0)]

\* variant: a cell that is in the map keeps its region
setBoundedCells_keepsFirst(map, bounds) ==
  [cell \in DOMAIN map \cup getBoundedCells(bounds) |->
     IF cell \in DOMAIN map THEN map[cell] ELSE bounds]

\* mergedCellMap.set(cell, bounds) for every cell of getBoundedCells(bounds)
setBoundedCells(map, bounds) ==
  [cell \in DOMAIN map \cup getBoundedCells(bounds) |->
     IF cell \in getBoundedCells(bounds) THEN bounds ELSE map[cell]]

\* the loop over mergedCells, from region i on
RECURSIVE fillMergedCellMap(_, _, _)
fillMergedCellMap(map, regions, i) ==
  IF i > Len(regions) THEN map
  ELSE fillMergedCellMap(setBoundedCells(map, regions[i]), regions, i + 1)

\* the value of the memo for a list of regions
buildMergedCellMap(regions) == fillMergedCellMap(NoCells, regions, 1)

isMergedCell(rowIndex, columnIndex) ==
  cellIdentifier(rowIndex, columnIndex) \in DOMAIN mergedCellMap

\* variant: right and bottom of a cell that is not merged are exchanged
getCellBounds_exchanged(rowIndex, columnIndex) ==
  IF isMergedCell(rowIndex, columnIndex)
  THEN mergedCellMap[cellIdentifier(rowIndex, columnIndex)]
  ELSE Area(rowIndex, columnIndex, columnIndex, rowIndex)

getCellBounds(rowIndex, columnIndex) ==
  IF isMergedCell(rowIndex, columnIndex)
  THEN mergedCellMap[cellIdentifier(rowIndex, columnIndex)]
  ELSE Area(rowIndex, columnIndex, rowIndex, columnIndex)

\* variant: top and left of the region are exchanged
getActualCellCoords_exchanged(rowIndex, columnIndex) ==
  IF isMergedCell(rowIndex, columnIndex)
  THEN LET cell == mergedCellMap[cellIdentifier(rowIndex, columnIndex)]
       IN [rowIndex |-> cell.left, columnIndex |-> cell.top]
  ELSE [rowIndex |-> rowIndex, columnIndex |-> columnIndex]

getActualCellCoords(rowIndex, columnIndex) ==
  IF isMergedCell(rowIndex, columnIndex)
  THEN LET cell == mergedCellMap[cellIdentifier(rowIndex, columnIndex)]
       IN [rowIndex |-> cell.top, columnIndex |-> cell.left]
  ELSE [rowIndex |-> rowIndex, columnIndex |-> columnIndex]

\* mergedCells = EMPTY_ARRAY, and no render pass observed
InitMerged ==
  /\ mergedCells = <<>>
  /\ mergedCellMap = NoCells
  /\ drawn = <<>>
  /\ lastQuery = <<>>
  /\ callerArrays = [column |-> <<>>, row |-> <<>>]

(***************************************************************************)
(* Initial state: instanceProps as constructed (no estimate props given),  *)
(* scale 1.                                                                *)
(***************************************************************************)
\* variant: the last measured indices start at 0
Init_lastMeasuredZero ==
  /\ scale = 1
  /\ rowMetadataMap = EmptyMap
  /\ columnMetadataMap = EmptyMap
  /\ lastMeasuredRowIndex = 0
  /\ lastMeasuredColumnIndex = 0
  /\ recalcRowIndices = {}
  /\ recalcColumnIndices = {}
  /\ estimatedRowHeight = DEFAULT_ESTIMATED_ITEM_SIZE
  /\ estimatedColumnWidth = DEFAULT_ESTIMATED_ITEM_SIZE
  /\ InitScroll
  /\ props = DefaultProps
  /\ latest = <<>>
  /\ request = <<>>
  /\ InitMerged

Init ==
  /\ scale = 1
  /\ rowMetadataMap = EmptyMap
  /\ columnMetadataMap = EmptyMap
  /\ lastMeasuredRowIndex = -1
  /\ lastMeasuredColumnIndex = -1
  /\ recalcRowIndices = {}
  /\ recalcColumnIndices = {}
  /\ estimatedRowHeight = DEFAULT_ESTIMATED_ITEM_SIZE
  /\ estimatedColumnWidth = DEFAULT_ESTIMATED_ITEM_SIZE
  /\ InitScroll
  /\ props = DefaultProps
  /\ latest = <<>>
  /\ request = <<>>
  /\ InitMerged

(***************************************************************************)
(* Exploration bound: a behaviour exercises the cache of one axis; the     *)
(* other axis stays as constructed.  The two caches share no field.        *)
(***************************************************************************)
RowsUntouched ==
  rowMetadataMap = EmptyMap /\ lastMeasuredRowIndex = -1 /\ recalcRowIndices = {}
ColumnsUntouched ==
  columnMetadataMap = EmptyMap /\ lastMeasuredColumnIndex = -1 /\ recalcColumnIndices = {}

\* A state belongs to the exploration of the rows when the columns are as
\* constructed, and to that of the columns when the rows are; the initial
\* state belongs to both.  What holds of an axis in the states of its
\* exploration holds of it in every state: in the others it is as
\* constructed.
RowsExplored == ColumnsUntouched
ColumnsExplored == RowsUntouched

\* the cache holds, for every measured index, the size the callback returns:
\* the application has announced every size change
Coherent(inst, itemSize, sc) ==
  \A i \in DOMAIN itemSize :
    i <= inst.lastMeasuredIndex => inst.metadataMap[i].size = itemSize[i] * sc

SetRows(inst) ==
  /\ rowMetadataMap' = inst.metadataMap
  /\ lastMeasuredRowIndex' = inst.lastMeasuredIndex
  /\ recalcRowIndices' = inst.recalcIndices
SetColumns(inst) ==
  /\ columnMetadataMap' = inst.metadataMap
  /\ lastMeasuredColumnIndex' = inst.lastMeasuredIndex
  /\ recalcColumnIndices' = inst.recalcIndices

(***************************************************************************)
(* Actions.                                                                *)
(***************************************************************************)
\* a caller of getRowOffset({index, rowHeight, ...}), e.g. getCellOffsetFromCoords
GetRowOffset ==
  /\ ColumnsUntouched
  /\ \E index \in Indices :
       \E rowHeight \in ItemSizers(index + 1) :
         SetRows(getItemMetadata(rowInst, index, rowHeight, scale))
  /\ UNCHANGED <<scrollVars, propVars, columnVars>>

GetColumnOffset ==
  /\ RowsUntouched
  /\ \E index \in Indices :
       \E columnWidth \in ItemSizers(index + 1) :
         SetColumns(getItemMetadata(columnInst, index, columnWidth, scale))
  /\ UNCHANGED <<scrollVars, propVars, rowVars>>

ResetAfterIndices ==
  \E columnIndex \in Indices \cup {Undefined}, rowIndex \in Indices \cup {Undefined} :
    LET reset == resetAfterIndices(columnInst, rowInst, columnIndex, rowIndex)
    IN /\ SetColumns(reset.column)
       /\ SetRows(reset.row)
       /\ UNCHANGED <<scrollVars, propVars>>

ResizeColumns ==
  /\ RowsUntouched
  /\ \E indices \in SUBSET Indices :
       LET resized == resizeColumns(columnInst, rowInst, indices)
       IN SetColumns(resized.column) /\ SetRows(resized.row)
  /\ UNCHANGED <<scrollVars, propVars>>

ResizeRows ==
  /\ ColumnsUntouched
  /\ \E indices \in SUBSET Indices :
       LET resized == resizeRows(columnInst, rowInst, indices)
       IN SetColumns(resized.column) /\ SetRows(resized.row)
  /\ UNCHANGED <<scrollVars, propVars>>

\* Grid.tsx: the effect that empties the recalc lists when the viewport changes
ClearRecalcIndices ==
  /\ recalcColumnIndices' = {}
  /\ recalcRowIndices' = {}
  /\ UNCHANGED <<scrollVars, propVars, rowMetadataMap, columnMetadataMap,
                 lastMeasuredRowIndex, lastMeasuredColumnIndex>>

\* the cache after a pass does not depend on isScrolling, the direction or
\* overscanCount (they enter the returned indices only)
GetVerticalRangeToRender ==
  /\ ColumnsUntouched
  /\ \E rowCount \in Counts, scrollTop \in ScrollOffsets, containerHeight \in Extents :
     \E rowHeight \in ItemSizers(rowCount) :
       /\ Coherent(rowInst, rowHeight, scale)
       /\ SetRows(getVerticalRangeToRender(rowCount, rowHeight, scrollTop, containerHeight,
                                           FALSE, "Down", 1).inst)
  /\ UNCHANGED <<scrollVars, propVars, columnVars>>

GetHorizontalRangeToRender ==
  /\ RowsUntouched
  /\ \E columnCount \in Counts, scrollLeft \in ScrollOffsets, containerWidth \in Extents :
     \E columnWidth \in ItemSizers(columnCount) :
       /\ Coherent(columnInst, columnWidth, scale)
       /\ SetColumns(getHorizontalRangeToRender(columnCount, columnWidth, scrollLeft,
                                                containerWidth, FALSE, "Right", 1).inst)
  /\ UNCHANGED <<scrollVars, propVars, rowVars>>

Next ==
  \/ GetRowOffset
  \/ GetColumnOffset
  \/ ResetAfterIndices
  \/ ResizeColumns
  \/ ResizeRows
  \/ ClearRecalcIndices

Spec == Init /\ [][Next]_vars

(***************************************************************************)
(* Both caches in use: cells are measured on both axes, and either axis is *)
(* resized or reset, in any order.  The sizes are uniform.                 *)
(***************************************************************************)
UniformSize == [i \in Indices |-> MaxSize]

\* the offsets of a cell are asked for, as the render walk does
MeasureCell ==
  /\ \E rowIndex \in Indices, columnIndex \in Indices :
       /\ SetRows(getItemMetadata(rowInst, rowIndex, UniformSize, scale))
       /\ SetColumns(getItemMetadata(columnInst, columnIndex, UniformSize, scale))
  /\ UNCHANGED <<scrollVars, propVars>>

ResizeColumnsOfGrid ==
  /\ \E indices \in SUBSET Indices :
       LET resized == resizeColumns(columnInst, rowInst, indices)
       IN SetColumns(resized.column) /\ SetRows(resized.row)
  /\ UNCHANGED <<scrollVars, propVars>>

ResizeRowsOfGrid ==
  /\ \E indices \in SUBSET Indices :
       LET resized == resizeRows(columnInst, rowInst, indices)
       IN SetColumns(resized.column) /\ SetRows(resized.row)
  /\ UNCHANGED <<scrollVars, propVars>>

NextAxes ==
  \/ MeasureCell
  \/ ResizeColumnsOfGrid
  \/ ResizeRowsOfGrid
  \/ ResetAfterIndices
  \/ ClearRecalcIndices

SpecAxes == Init /\ [][NextAxes]_vars

(***************************************************************************)
(* The index arrays of resizeColumns / resizeRows.  The recalc list of an  *)
(* axis is a reference to an array: resizeColumns(indices) stores the      *)
(* array it is given, resetAfterIndices stores a new empty array, and the  *)
(* effect empties in place the array the list refers to.  callerArrays     *)
(* holds, per axis, the array last passed by a caller: what it was given,  *)
(* what it holds now, and whether the recalc list still refers to it.      *)
(***************************************************************************)
\* instanceProps.current.recalcColumnIndices = []
Released(array) ==
  IF array = <<>> THEN <<>> ELSE <<[array[1] EXCEPT !.aliased = FALSE]>>
\* instanceProps.current.recalcColumnIndices.length = 0
Truncated(array) ==
  IF array # <<>> /\ array[1].aliased THEN <<[array[1] EXCEPT !.holds = {}]>> ELSE array

\* resizeColumns(indices), called with an array of the caller
CallerResizeColumns ==
  /\ \E indices \in SUBSET Indices :
       LET resized == resizeColumns(columnInst, rowInst, indices)
       IN /\ SetColumns(resized.column)
          /\ SetRows(resized.row)
          /\ callerArrays' = [callerArrays EXCEPT !.column =
                                 <<[given |-> indices, holds |-> indices, aliased |-> TRUE]>>]
  /\ UNCHANGED <<scrollVars, scale, estimatedRowHeight, estimatedColumnWidth, mergedCells,
                 mergedCellMap, drawn, lastQuery>>

\* resizeRows(indices), called with an array of the caller
CallerResizeRows ==
  /\ \E indices \in SUBSET Indices :
       LET resized == resizeRows(columnInst, rowInst, indices)
       IN /\ SetColumns(resized.column)
          /\ SetRows(resized.row)
          /\ callerArrays' = [callerArrays EXCEPT !.row =
                                 <<[given |-> indices, holds |-> indices, aliased |-> TRUE]>>]
  /\ UNCHANGED <<scrollVars, scale, estimatedRowHeight, estimatedColumnWidth, mergedCells,
                 mergedCellMap, drawn, lastQuery>>

\* resetAfterIndices({columnIndex, rowIndex}): a new list for each axis named
CallerResetAfterIndices ==
  /\ \E columnIndex \in Indices \cup {Undefined}, rowIndex \in Indices \cup {Undefined} :
       LET reset == resetAfterIndices(columnInst, rowInst, columnIndex, rowIndex)
       IN /\ SetColumns(reset.column)
          /\ SetRows(reset.row)
          /\ callerArrays' =
               [column |-> IF columnIndex # Undefined
                           THEN Released(callerArrays.column) ELSE callerArrays.column,
                row |-> IF rowIndex # Undefined
                        THEN Released(callerArrays.row) ELSE callerArrays.row]
  /\ UNCHANGED <<scrollVars, scale, estimatedRowHeight, estimatedColumnWidth, mergedCells,
                 mergedCellMap, drawn, lastQuery>>

\* the effect of [rowStopIndex, columnStopIndex, scale]: both lists are emptied
RecalcIndicesEffect ==
  /\ recalcColumnIndices' = {}
  /\ recalcRowIndices' = {}
  /\ callerArrays' = [column |-> Truncated(callerArrays.column),
                      row |-> Truncated(callerArrays.row)]
  /\ UNCHANGED <<scrollVars, scale, estimatedRowHeight, estimatedColumnWidth, mergedCells,
                 mergedCellMap, drawn, lastQuery, rowMetadataMap, columnMetadataMap,
                 lastMeasuredRowIndex, lastMeasuredColumnIndex>>

NextCaller ==
  \/ CallerResizeColumns
  \/ CallerResizeRows
  \/ CallerResetAfterIndices
  \/ RecalcIndicesEffect

SpecCaller == Init /\ [][NextCaller]_vars

(***************************************************************************)
(* Range queries that are remembered: the arguments of the last call of a  *)
(* range calculator, the range it returned and the cache it left.  One     *)
(* query is remembered at a time.                                          *)
(***************************************************************************)
QueryVerticalRange ==
  /\ lastQuery = <<>>
  /\ ColumnsUntouched
  /\ \E rowCount \in Counts, scrollTop \in ScrollOffsets, containerHeight \in Extents,
        isScrolling \in BOOLEAN :
     \E rowHeight \in ItemSizers(rowCount) :
       \E pass \in {getVerticalRangeToRender(rowCount, rowHeight, scrollTop, containerHeight,
                                             isScrolling, "Down", MaxOverscan)} :
         /\ Coherent(rowInst, rowHeight, scale)
         /\ SetRows(pass.inst)
         /\ lastQuery' = <<[axis |-> "row", count |-> rowCount, itemSize |-> rowHeight,
                            scrollOffset |-> scrollTop, containerExtent |-> containerHeight,
                            isScrolling |-> isScrolling, direction |-> "Down",
                            overscanCount |-> MaxOverscan,
                            range |-> pass.range, inst |-> pass.inst]>>
  /\ UNCHANGED <<scrollVars, scale, estimatedRowHeight, estimatedColumnWidth, mergedCells,
                 mergedCellMap, drawn, callerArrays, columnVars>>

QueryHorizontalRange ==
  /\ lastQuery = <<>>
  /\ RowsUntouched
  /\ \E columnCount \in Counts, scrollLeft \in ScrollOffsets, containerWidth \in Extents,
        isScrolling \in BOOLEAN :
     \E columnWidth \in ItemSizers(columnCount) :
       \E pass \in {getHorizontalRangeToRender(columnCount, columnWidth, scrollLeft,
                                               containerWidth, isScrolling, "Right",
                                               MaxOverscan)} :
         /\ Coherent(columnInst, columnWidth, scale)
         /\ SetColumns(pass.inst)
         /\ lastQuery' = <<[axis |-> "column", count |-> columnCount, itemSize |-> columnWidth,
                            scrollOffset |-> scrollLeft, containerExtent |-> containerWidth,
                            isScrolling |-> isScrolling, direction |-> "Right",
                            overscanCount |-> MaxOverscan,
                            range |-> pass.range, inst |-> pass.inst]>>
  /\ UNCHANGED <<scrollVars, scale, estimatedRowHeight, estimatedColumnWidth, mergedCells,
                 mergedCellMap, drawn, callerArrays, rowVars>>

\* the remembered query is dropped; the grid is as it was
ForgetQuery ==
  /\ lastQuery # <<>>
  /\ lastQuery' = <<>>
  /\ UNCHANGED <<scrollVars, scale, estimatedRowHeight, estimatedColumnWidth, mergedCells,
                 mergedCellMap, drawn, callerArrays, rowVars, columnVars>>

NextQuery ==
  \/ QueryVerticalRange
  \/ QueryHorizontalRange
  \/ ResetAfterIndices
  \/ ForgetQuery

SpecQuery == Init /\ [][NextQuery]_vars

(***************************************************************************)
(* The scale prop: the application passes another scale.  The cache is not *)
(* touched; the effect that depends on the scale empties the recalc lists. *)
(***************************************************************************)
MaxScale == 2        \* the scale prop ranges over 1..MaxScale
Scales == 1..MaxScale

SetScale ==
  /\ scale' \in Scales \ {scale}
  /\ recalcColumnIndices' = {}
  /\ recalcRowIndices' = {}
  /\ UNCHANGED <<rowMetadataMap, columnMetadataMap, lastMeasuredRowIndex,
                 lastMeasuredColumnIndex, estimatedRowHeight, estimatedColumnWidth,
                 mergeVars, scrollVars>>

NextScale ==
  \/ GetRowOffset
  \/ GetColumnOffset
  \/ ResetAfterIndices
  \/ SetScale

SpecScale == Init /\ [][NextScale]_vars

(***************************************************************************)
(* The render passes: the range calculators run against a cache that the   *)
(* application keeps coherent with its callbacks.                          *)
(***************************************************************************)
NextRange ==
  \/ GetVerticalRangeToRender
  \/ GetHorizontalRangeToRender
  \/ ResetAfterIndices

SpecRange == Init /\ [][NextRange]_vars

(***************************************************************************)
(* Scrolling: the user's inputs, the scroll events of the two containers,  *)
(* the debounce timer and the wheel frame.                                 *)
(***************************************************************************)
\* a timer whose delay has elapsed fires before anything else happens
NoTimeoutDue == \A id \in DOMAIN timeouts : timeouts[id] > 0

\* the user drags the vertical scrollbar
UserScroll ==
  /\ inputs < MaxInputs
  /\ \E position \in Positions \ {verticalScrollRef} : verticalScrollRef' = position
  /\ scrollEvents' = scrollEvents \cup {"vertical"}
  /\ inputs' = inputs + 1
  /\ UNCHANGED <<storeVars, requestVars, scrollState, timerVars, frameVars, horizontalScrollRef,
                 elapsed, burst, transitions>>

\* the user drags the horizontal scrollbar
UserScrollLeft ==
  /\ inputs < MaxInputs
  /\ \E position \in Positions \ {horizontalScrollRef} : horizontalScrollRef' = position
  /\ scrollEvents' = scrollEvents \cup {"horizontal"}
  /\ inputs' = inputs + 1
  /\ UNCHANGED <<storeVars, requestVars, scrollState, timerVars, frameVars, verticalScrollRef,
                 elapsed, burst, transitions>>

\* the observers at a scroll event: an event that arrives less than the
\* debounce interval after the previous one continues its burst
ObserveScrollEvent ==
  /\ elapsed' = 0
  /\ burst' = IF elapsed < RESET_SCROLL_EVENTS_DEBOUNCE_INTERVAL THEN Min2(MaxInputs, burst + 1) ELSE 1
  /\ transitions' = IF elapsed < RESET_SCROLL_EVENTS_DEBOUNCE_INTERVAL THEN transitions ELSE 0
  /\ UNCHANGED inputs

\* variant: the handler does not schedule the reset of isScrolling
HandleScroll_noReset ==
  /\ "vertical" \in scrollEvents
  /\ NoTimeoutDue
  /\ scrollEvents' = scrollEvents \ {"vertical"}
  /\ scrollState' = [scrollState EXCEPT
                       !.isScrolling = TRUE,
                       !.verticalScrollDirection =
                          IF scrollState.scrollTop > verticalScrollRef THEN "Up" ELSE "Down",
                       !.scrollTop = verticalScrollRef]
  /\ ObserveScrollEvent
  /\ UNCHANGED <<storeVars, requestVars, timerVars, frameVars, verticalScrollRef, horizontalScrollRef>>

\* variant: an event that leaves scrollTop where it was counts as Up
HandleScroll_upOnEqual ==
  /\ "vertical" \in scrollEvents
  /\ NoTimeoutDue
  /\ scrollEvents' = scrollEvents \ {"vertical"}
  /\ scrollState' = [scrollState EXCEPT
                       !.isScrolling = TRUE,
                       !.verticalScrollDirection =
                          IF scrollState.scrollTop >= verticalScrollRef THEN "Up" ELSE "Down",
                       !.scrollTop = verticalScrollRef]
  /\ LET debounced == resetIsScrollingDebounced(resetIsScrollingTimeoutID, timeouts)
     IN /\ resetIsScrollingTimeoutID' = debounced.resetIsScrollingTimeoutID
        /\ timeouts' = debounced.timeouts
  /\ ObserveScrollEvent
  /\ UNCHANGED <<storeVars, requestVars, frameVars, verticalScrollRef, horizontalScrollRef>>

\* handleScroll, on the scroll event of the vertical container
HandleScroll ==
  /\ "vertical" \in scrollEvents
  /\ NoTimeoutDue
  /\ scrollEvents' = scrollEvents \ {"vertical"}
  /\ scrollState' = [scrollState EXCEPT
                       !.isScrolling = TRUE,
                       !.verticalScrollDirection =
                          IF scrollState.scrollTop > verticalScrollRef THEN "Up" ELSE "Down",
                       !.scrollTop = verticalScrollRef]
  /\ LET debounced == resetIsScrollingDebounced(resetIsScrollingTimeoutID, timeouts)
     IN /\ resetIsScrollingTimeoutID' = debounced.resetIsScrollingTimeoutID
        /\ timeouts' = debounced.timeouts
  /\ ObserveScrollEvent
  /\ UNCHANGED <<storeVars, requestVars, frameVars, verticalScrollRef, horizontalScrollRef>>

\* handleScrollLeft, on the scroll event of the horizontal container
HandleScrollLeft ==
  /\ "horizontal" \in scrollEvents
  /\ NoTimeoutDue
  /\ scrollEvents' = scrollEvents \ {"horizontal"}
  /\ scrollState' = [scrollState EXCEPT
                       !.isScrolling = TRUE,
                       !.horizontalScrollDirection =
                          IF scrollState.scrollLeft > horizontalScrollRef THEN "Left" ELSE "Right",
                       !.scrollLeft = horizontalScrollRef]
  /\ LET debounced == resetIsScrollingDebounced(resetIsScrollingTimeoutID, timeouts)
     IN /\ resetIsScrollingTimeoutID' = debounced.resetIsScrollingTimeoutID
        /\ timeouts' = debounced.timeouts
  /\ ObserveScrollEvent
  /\ UNCHANGED <<storeVars, requestVars, frameVars, verticalScrollRef, horizontalScrollRef>>

\* variant: the callback leaves the handle of its timer in the ref
ResetIsScrolling_keepsHandle ==
  /\ \E id \in DOMAIN timeouts :
       /\ timeouts[id] = 0
       /\ timeouts' = cancelTimeout(timeouts, id)
  /\ scrollState' = [scrollState EXCEPT !.isScrolling = FALSE]
  /\ transitions' = IF scrollState.isScrolling THEN transitions + 1 ELSE transitions
  /\ UNCHANGED <<storeVars, requestVars, frameVars, domVars, elapsed, burst, inputs,
                 resetIsScrollingTimeoutID>>

\* resetIsScrolling, the callback of a timer whose delay has elapsed
ResetIsScrolling ==
  /\ \E id \in DOMAIN timeouts :
       /\ timeouts[id] = 0
       /\ timeouts' = cancelTimeout(timeouts, id)
  /\ resetIsScrollingTimeoutID' = Null
  /\ scrollState' = [scrollState EXCEPT !.isScrolling = FALSE]
  /\ transitions' = IF scrollState.isScrolling THEN transitions + 1 ELSE transitions
  /\ UNCHANGED <<storeVars, requestVars, frameVars, domVars, elapsed, burst, inputs>>

\* time passes, up to the delay of the next timer
Tick ==
  /\ NoTimeoutDue
  /\ ~(DOMAIN timeouts = {} /\ elapsed = RESET_SCROLL_EVENTS_DEBOUNCE_INTERVAL)
  /\ LET step == Min2(MaxTick, MathMin({timeouts[id] : id \in DOMAIN timeouts}))
     IN /\ timeouts' = [id \in DOMAIN timeouts |-> timeouts[id] - step]
        /\ elapsed' = Min2(RESET_SCROLL_EVENTS_DEBOUNCE_INTERVAL, elapsed + step)
  /\ UNCHANGED <<storeVars, requestVars, scrollState, resetIsScrollingTimeoutID, frameVars, domVars,
                 burst, transitions, inputs>>

\* handleWheel, on a wheel event over the grid
HandleWheel ==
  /\ inputs < MaxInputs
  /\ inputs' = inputs + 1
  /\ \E deltaX \in Deltas, deltaY \in Deltas, deltaMode \in {0, 1} :
       IF snap
       THEN \E rowHeight \in Sizes, columnWidth \in Sizes, rows \in BOOLEAN, columns \in BOOLEAN :
              LET top == IF rows THEN snapToRowFn(deltaY, rowHeight, verticalScrollRef)
                         ELSE verticalScrollRef
                  left == IF columns
                          THEN snapToColumnFn(deltaX, columnWidth, horizontalScrollRef)
                          ELSE horizontalScrollRef
              IN /\ verticalScrollRef' = top
                 /\ horizontalScrollRef' = left
                 /\ scrollEvents' = scrollEvents
                                      \cup (IF left # horizontalScrollRef THEN {"horizontal"} ELSE {})
                                      \cup (IF top # verticalScrollRef THEN {"vertical"} ELSE {})
                 /\ UNCHANGED frameVars
       ELSE LET wheeled == handleWheel(deltaX, deltaY, deltaMode, wheelingRef, frames,
                                       horizontalScrollRef, verticalScrollRef)
            IN /\ wheelingRef' = wheeled.wheelingRef
               /\ frames' = wheeled.frames
               /\ UNCHANGED domVars
  /\ UNCHANGED <<storeVars, requestVars, scrollState, timerVars, elapsed, burst, transitions>>

\* the frame callback of handleWheel
WheelFrame ==
  /\ frames # <<>>
  /\ Head(frames).kind = "wheel"
  /\ LET frame == Head(frames)
         left == IF frame.isHorizontal THEN setScrollOffset(frame.value)
                 ELSE horizontalScrollRef
         top == IF frame.isHorizontal THEN verticalScrollRef
                ELSE setScrollOffset(frame.value)
     IN /\ wheelingRef' = Null
        /\ frames' = Tail(frames)
        /\ horizontalScrollRef' = left
        /\ verticalScrollRef' = top
        /\ scrollEvents' = scrollEvents
                             \cup (IF left # horizontalScrollRef THEN {"horizontal"} ELSE {})
                             \cup (IF top # verticalScrollRef THEN {"vertical"} ELSE {})
  /\ UNCHANGED <<storeVars, requestVars, scrollState, timerVars, historyVars>>

NextScroll ==
  \/ UserScroll
  \/ UserScrollLeft
  \/ HandleScroll
  \/ HandleScrollLeft
  \/ ResetIsScrolling
  \/ Tick
  \/ HandleWheel
  \/ WheelFrame

\* a scroll event is dispatched, a frame runs, time passes and a timer fires
SpecScroll ==
  /\ Init
  /\ [][NextScroll]_vars
  /\ WF_vars(HandleScroll)
  /\ WF_vars(HandleScrollLeft)
  /\ WF_vars(WheelFrame)
  /\ WF_vars(Tick)
  /\ WF_vars(ResetIsScrolling)

(***************************************************************************)
(* Scroll Alignment Planner (specification 4.5).  Grid.tsx imports         *)
(* getOffsetForRowAndAlignment / getOffsetForColumnAndAlignment from       *)
(* "./helpers"; planScroll models them, once for both axes: the target is  *)
(* measured, the offset that satisfies the alignment is computed and kept  *)
(* within the viewport bounds [0, max(0, estimatedTotal - extent)].        *)
(***************************************************************************)
Aligns == {"start", "end", "center", "smart"}

withinBounds(offset, total, containerExtent) ==
  Max2(0, Min2(Max2(0, total - containerExtent), offset))

planScroll(inst, index, count, itemSize, estimatedItemSize, containerExtent, scrollOffset, frozenOffset, align, sc) ==
  LET measured == getItemMetadata(inst, index, itemSize, sc)
      offset == measured.metadataMap[index].offset
      size == measured.metadataMap[index].size
      total == getEstimatedTotal(measured, count, estimatedItemSize)
      startOffset == offset - frozenOffset
      endOffset == offset + size - containerExtent
      centerOffset == (offset + endOffset) \div 2
      isVisible == startOffset >= scrollOffset /\ endOffset <= scrollOffset
      planned == CASE align = "start" -> startOffset
                   [] align = "end" -> endOffset
                   [] align = "center" -> centerOffset
                   [] OTHER -> IF isVisible THEN scrollOffset
                               ELSE IF startOffset < scrollOffset THEN startOffset
                               ELSE endOffset
  IN [inst |-> measured,
      offset |-> withinBounds(planned, total, containerExtent)]

(***************************************************************************)
(* Grid.tsx: scrollToItem.  props are the props of the grid, viewPort the  *)
(* rendered window (rowStartIndex .. columnStopIndex).                     *)
(***************************************************************************)
\* `index && ...`: undefined and 0 are falsy
Truthy(index) == index # Undefined /\ index # 0

\* isFrozenRow / isFrozenColumn
isFrozen(index, frozen) == Truthy(index) /\ index < frozen

\* variant: every request is aligned at the start
alignFor_start(index, size, containerExtent, align) == "start"

\* rowAlign / columnAlign, from height / width
alignFor(index, size, containerExtent, align) ==
  LET extent == IF Truthy(index) THEN size ELSE 0
  IN IF extent > containerExtent THEN "start" ELSE align

\* variant: the frozen region is not measured
frozenOffset_none(inst, frozen) == 0

\* frozenRowOffset / frozenColumnOffset, from the cache getRowOffset /
\* getColumnOffset of the frozen count leaves
frozenOffset(inst, frozen) == inst.metadataMap[frozen].offset

\* variant: nothing is deferred
isOutsideViewport_never(rowIndex, columnIndex, viewPort) == FALSE

isOutsideViewport(rowIndex, columnIndex, viewPort) ==
  \/ /\ rowIndex # Undefined
     /\ rowIndex > viewPort.rowStopIndex + (viewPort.rowStopIndex - viewPort.rowStartIndex)
  \/ /\ columnIndex # Undefined
     /\ columnIndex > viewPort.columnStopIndex
                        + (viewPort.columnStopIndex - viewPort.columnStartIndex)

scrollToItem(rowIndex, columnIndex, align, p, column, row, scrollLeft, scrollTop, viewPort) ==
  LET isFrozenRow == isFrozen(rowIndex, p.frozenRows)
      isFrozenColumn == isFrozen(columnIndex, p.frozenColumns)
      column1 == getItemMetadata(column, p.frozenColumns, p.columnWidth, scale)
      frozenColumnOffset == frozenOffset(column1, p.frozenColumns)
      column2 == IF Truthy(columnIndex)
                 THEN getItemMetadata(column1, columnIndex, p.columnWidth, scale)
                 ELSE column1
      row1 == IF Truthy(rowIndex)
              THEN getItemMetadata(row, rowIndex, p.rowHeight, scale)
              ELSE row
      width == IF Truthy(columnIndex)
               THEN getSize(column2, columnIndex, estimatedColumnWidth) ELSE 0
      height == IF Truthy(rowIndex)
                THEN getSize(row1, rowIndex, estimatedRowHeight) ELSE 0
      columnAlign == alignFor(columnIndex, width, p.containerWidth, align)
      rowAlign == alignFor(rowIndex, height, p.containerHeight, align)
      plannedLeft == planScroll(column2, columnIndex, p.columnCount, p.columnWidth,
                                estimatedColumnWidth, p.containerWidth, scrollLeft,
                                frozenColumnOffset, columnAlign, scale)
      scrollsLeft == columnIndex # Undefined /\ ~isFrozenColumn
      column3 == IF scrollsLeft THEN plannedLeft.inst ELSE column2
      row2 == getItemMetadata(row1, p.frozenRows, p.rowHeight, scale)
      frozenRowOffset == frozenOffset(row2, p.frozenRows)
      plannedTop == planScroll(row2, rowIndex, p.rowCount, p.rowHeight,
                               estimatedRowHeight, p.containerHeight, scrollTop,
                               frozenRowOffset, rowAlign, scale)
      scrollsTop == rowIndex # Undefined /\ ~isFrozenRow
      row3 == IF scrollsTop THEN plannedTop.inst ELSE row2
  IN [column |-> column3,
      row |-> row3,
      columnAlign |-> columnAlign,
      rowAlign |-> rowAlign,
      coords |-> [scrollLeft |-> IF scrollsLeft THEN plannedLeft.offset ELSE Undefined,
                  scrollTop |-> IF scrollsTop THEN plannedTop.offset ELSE Undefined],
      isOutsideViewport |-> isOutsideViewport(rowIndex, columnIndex, viewPort)]

(***************************************************************************)
(* Scroll-to requests: scrollTo, scrollToItem and the frame that applies   *)
(* a deferred scrollToItem.  The grid has the props given at construction; *)
(* a behaviour exercises one axis, the other axis has a single item.       *)
(***************************************************************************)
MaxFrozen == 2       \* frozenRows and frozenColumns range over 0..MaxFrozen
MaxFrames == 1       \* deferred scroll-to requests that may be pending

GridCounts == 1..(MaxCount + 1)

\* the props of a grid that exercises one axis: count items of sizes itemSize
OneAxisProps(rows, count, itemSize, frozen, extent, scrollbar) ==
  LET single == [i \in {0} |-> MaxSize]
  IN [rowCount |-> IF rows THEN count ELSE 1,
      columnCount |-> IF rows THEN 1 ELSE count,
      rowHeight |-> IF rows THEN itemSize ELSE single,
      columnWidth |-> IF rows THEN single ELSE itemSize,
      frozenRows |-> IF rows THEN frozen ELSE 0,
      frozenColumns |-> IF rows THEN 0 ELSE frozen,
      containerHeight |-> IF rows THEN extent ELSE MaxExtent,
      containerWidth |-> IF rows THEN MaxExtent ELSE extent,
      overscanCount |-> 1,
      showScrollbar |-> scrollbar,
      snap |-> FALSE]

GridProps ==
  UNION {{OneAxisProps(rows, count, itemSize, frozen, extent, scrollbar) :
            rows \in BOOLEAN, itemSize \in ItemSizers(count),
            frozen \in 0..Min2(count - 1, MaxFrozen), extent \in Extents,
            scrollbar \in BOOLEAN} :
         count \in GridCounts}

\* grids whose items all have size MaxSize and that have no frozen item
UniformGridProps ==
  {OneAxisProps(rows, count, [i \in 0..(count - 1) |-> MaxSize], 0, extent, scrollbar) :
     rows \in BOOLEAN, count \in GridCounts, extent \in Extents, scrollbar \in BOOLEAN}

\* the render pass: the rendered window and the cache it leaves
rendered ==
  LET rows == getVerticalRangeToRender(props.rowCount, props.rowHeight,
                scrollState.scrollTop, props.containerHeight, scrollState.isScrolling,
                scrollState.verticalScrollDirection, props.overscanCount)
      columns == getHorizontalRangeToRender(props.columnCount, props.columnWidth,
                   scrollState.scrollLeft, props.containerWidth, scrollState.isScrolling,
                   scrollState.horizontalScrollDirection, props.overscanCount)
  IN [row |-> rows.inst,
      column |-> columns.inst,
      viewPort |-> [rowStartIndex |-> rows.range[1], rowStopIndex |-> rows.range[2],
                    columnStartIndex |-> columns.range[1],
                    columnStopIndex |-> columns.range[2]]]

\* variant: each axis is planned from the scroll offset of the other
scrollToRendered_swapsOffsets(rowIndex, columnIndex, align, grid) ==
  scrollToItem(rowIndex, columnIndex, align, props, grid.column, grid.row,
               scrollState.scrollTop, scrollState.scrollLeft, grid.viewPort)

\* scrollToItem({rowIndex, columnIndex}, align) on the grid as rendered
scrollToRendered(rowIndex, columnIndex, align, grid) ==
  scrollToItem(rowIndex, columnIndex, align, props, grid.column, grid.row,
               scrollState.scrollLeft, scrollState.scrollTop, grid.viewPort)

\* the indices a request may name on an axis: one of its items, or none
Targets(count) == (0..(count - 1)) \cup {Undefined}

\* variant: without a scrollbar both coordinates are written as they come
scrollTo_writesBoth(coords) ==
  IF showScrollbar
  THEN LET left == IF coords.scrollLeft # Undefined
                   THEN setScrollOffset(coords.scrollLeft) ELSE horizontalScrollRef
           top == IF coords.scrollTop # Undefined
                  THEN setScrollOffset(coords.scrollTop) ELSE verticalScrollRef
       IN /\ horizontalScrollRef' = left
          /\ verticalScrollRef' = top
          /\ scrollEvents' = scrollEvents
                               \cup (IF left # horizontalScrollRef THEN {"horizontal"} ELSE {})
                               \cup (IF top # verticalScrollRef THEN {"vertical"} ELSE {})
          /\ UNCHANGED scrollState
  ELSE /\ scrollState' = [scrollState EXCEPT
                            !.scrollLeft = coords.scrollLeft,
                            !.scrollTop = coords.scrollTop]
       /\ UNCHANGED domVars

\* scrollTo({scrollTop, scrollLeft})
scrollTo(coords) ==
  IF showScrollbar
  THEN LET left == IF coords.scrollLeft # Undefined
                   THEN setScrollOffset(coords.scrollLeft) ELSE horizontalScrollRef
           top == IF coords.scrollTop # Undefined
                  THEN setScrollOffset(coords.scrollTop) ELSE verticalScrollRef
       IN /\ horizontalScrollRef' = left
          /\ verticalScrollRef' = top
          /\ scrollEvents' = scrollEvents
                               \cup (IF left # horizontalScrollRef THEN {"horizontal"} ELSE {})
                               \cup (IF top # verticalScrollRef THEN {"vertical"} ELSE {})
          /\ UNCHANGED scrollState
  ELSE /\ scrollState' = [scrollState EXCEPT
                            !.scrollLeft = IF coords.scrollLeft = Undefined
                                           THEN @ ELSE coords.scrollLeft,
                            !.scrollTop = IF coords.scrollTop = Undefined
                                          THEN @ ELSE coords.scrollTop]
       /\ UNCHANGED domVars

\* the body of scrollToItem after the coords are computed: the cache the
\* queries leave, and scrollTo now or in the next frame
applyScrollToItem(planned) ==
  /\ SetRows(planned.row)
  /\ SetColumns(planned.column)
  /\ latest' = <<planned.coords>>
  /\ IF planned.isOutsideViewport
     THEN /\ frames' = Append(frames,
                              Frame(freshId(frameIds(frames)), "scrollTo", FALSE, Undefined,
                                    planned.coords.scrollLeft, planned.coords.scrollTop))
          /\ UNCHANGED <<scrollState, domVars>>
     ELSE /\ scrollTo(planned.coords)
          /\ UNCHANGED frames
  /\ UNCHANGED <<propVars, props, timerVars, wheelingRef, historyVars>>

\* the application calls scrollTo
ScrollTo ==
  /\ \E left \in Positions \cup {Undefined}, top \in Positions \cup {Undefined} :
       /\ (props.rowCount = 1 \/ left = Undefined)
       /\ (props.columnCount = 1 \/ top = Undefined)
       /\ scrollTo([scrollLeft |-> left, scrollTop |-> top])
       /\ latest' = <<[scrollLeft |-> left, scrollTop |-> top]>>
  /\ UNCHANGED <<storeVars, props, request, timerVars, frameVars, historyVars>>

\* the application calls scrollToItem
ScrollToItem ==
  /\ Len(frames) < MaxFrames
  /\ \E rowIndex \in Targets(props.rowCount), columnIndex \in Targets(props.columnCount) :
     \E align \in Aligns :
     \E planned \in {scrollToRendered(rowIndex, columnIndex, align, rendered)} :
       applyScrollToItem(planned)
  /\ UNCHANGED request

\* the frame callback of scrollToItem
ScrollToFrame ==
  /\ frames # <<>>
  /\ Head(frames).kind = "scrollTo"
  /\ scrollTo([scrollLeft |-> Head(frames).scrollLeft, scrollTop |-> Head(frames).scrollTop])
  /\ frames' = Tail(frames)
  /\ UNCHANGED <<storeVars, requestVars, timerVars, wheelingRef, historyVars>>

InitInstanceProps ==
  /\ scale = 1
  /\ rowMetadataMap = EmptyMap
  /\ columnMetadataMap = EmptyMap
  /\ lastMeasuredRowIndex = -1
  /\ lastMeasuredColumnIndex = -1
  /\ recalcRowIndices = {}
  /\ recalcColumnIndices = {}
  /\ estimatedRowHeight = DEFAULT_ESTIMATED_ITEM_SIZE
  /\ estimatedColumnWidth = DEFAULT_ESTIMATED_ITEM_SIZE

InitScrollTo ==
  /\ InitInstanceProps
  /\ InitScroll
  /\ props \in UniformGridProps
  /\ latest = <<>>
  /\ request = <<>>
  /\ InitMerged

NextScrollTo ==
  \/ ScrollTo
  \/ ScrollToItem
  \/ ScrollToFrame
  \/ HandleScroll
  \/ HandleScrollLeft

SpecScrollTo == InitScrollTo /\ [][NextScrollTo]_vars

\* a grid with or without the snap prop; wheel events, drags and frames
InitWheel ==
  /\ InitInstanceProps
  /\ InitScroll
  /\ props \in {DefaultProps, [DefaultProps EXCEPT !.snap = TRUE]}
  /\ latest = <<>>
  /\ request = <<>>
  /\ InitMerged

SpecWheel == InitWheel /\ [][NextScroll]_vars

(***************************************************************************)
(* One scrollToItem call, from any grid and any scroll offset: the call    *)
(* is observed (request) with the scroll state it found.                   *)
(***************************************************************************)
InitPlan ==
  /\ InitInstanceProps
  /\ props \in GridProps
  /\ \E left \in Positions, top \in Positions :
       /\ (props.rowCount = 1 \/ left = 0)
       /\ (props.columnCount = 1 \/ top = 0)
       /\ scrollState = [scrollTop |-> top, scrollLeft |-> left, isScrolling |-> FALSE,
                         verticalScrollDirection |-> "Down",
                         horizontalScrollDirection |-> "Right"]
       /\ verticalScrollRef = top
       /\ horizontalScrollRef = left
  /\ resetIsScrollingTimeoutID = Null
  /\ wheelingRef = Null
  /\ scrollEvents = {}
  /\ timeouts = NoTimeouts
  /\ frames = <<>>
  /\ elapsed = RESET_SCROLL_EVENTS_DEBOUNCE_INTERVAL
  /\ burst = 0
  /\ transitions = 0
  /\ inputs = 0
  /\ latest = <<>>
  /\ request = <<>>
  /\ InitMerged

\* the application calls scrollToItem, once
ObservedScrollToItem ==
  /\ request = <<>>
  /\ \E rowIndex \in Targets(props.rowCount), columnIndex \in Targets(props.columnCount) :
     \E align \in Aligns :
     \E grid \in {rendered} :
     \E planned \in {scrollToRendered(rowIndex, columnIndex, align, grid)} :
       /\ applyScrollToItem(planned)
       /\ request' = <<[rowIndex |-> rowIndex, columnIndex |-> columnIndex, align |-> align,
                      scrollLeft |-> scrollState.scrollLeft,
                      scrollTop |-> scrollState.scrollTop,
                      left |-> horizontalScrollRef, top |-> verticalScrollRef,
                      viewPort |-> grid.viewPort,
                      rowAlign |-> planned.rowAlign, columnAlign |-> planned.columnAlign,
                      coords |-> planned.coords,
                      isOutsideViewport |-> planned.isOutsideViewport]>>

NextPlan ==
  \/ ObservedScrollToItem
  \/ ScrollToFrame

SpecPlan == InitPlan /\ [][NextPlan]_vars

(***************************************************************************)
(* The merged-region list: the application renders the grid with a new     *)
(* mergedCells prop, and the memo is computed again from it.               *)
(***************************************************************************)
\* variant: the memo is not computed again
SetMergedCells_staleMemo ==
  /\ \E regions \in RegionLists \ {mergedCells} : mergedCells' = regions
  /\ UNCHANGED <<mergedCellMap, drawn, lastQuery, callerArrays>>
  /\ UNCHANGED <<scale, rowVars, columnVars, estimatedRowHeight, estimatedColumnWidth,
                 scrollVars>>

SetMergedCells ==
  /\ \E regions \in RegionLists \ {mergedCells} :
       /\ mergedCells' = regions
       /\ mergedCellMap' = buildMergedCellMap(regions)
  /\ UNCHANGED <<drawn, lastQuery, callerArrays>>
  /\ UNCHANGED <<scale, rowVars, columnVars, estimatedRowHeight, estimatedColumnWidth,
                 scrollVars>>

NextMerged ==
  \/ SetMergedCells

SpecMerged == Init /\ [][NextMerged]_vars

(***************************************************************************)
(* The render pass: the four walks that draw the cells of the rendered     *)
(* window (scrollable area, frozen rows, frozen columns, frozen            *)
(* intersection).  No row is hidden (isHiddenRow is not given).            *)
(***************************************************************************)
\* the indices from..to of a for loop, in order
Loop(from, to) == [i \in 1..Max2(0, to - from + 1) |-> from + i - 1]

\* the cells a pair of nested loops enumerates, row by row
Enumerated(rows, columns) ==
  [k \in 1..(Len(rows) * Len(columns)) |->
     <<rows[((k - 1) \div Len(columns)) + 1], columns[((k - 1) % Len(columns)) + 1]>>]

NotFrozenRow(rowIndex) == ~(rowIndex < props.frozenRows)
NotFrozenColumn(columnIndex) == ~(columnIndex < props.frozenColumns)

\* the rows and the columns each walk visits
mainRows(viewPort) ==
  IF props.columnCount > 0 /\ props.rowCount # 0
  THEN SelectSeq(Loop(viewPort.rowStartIndex, viewPort.rowStopIndex), NotFrozenRow)
  ELSE <<>>
mainColumns(viewPort) ==
  SelectSeq(Loop(viewPort.columnStartIndex, viewPort.columnStopIndex), NotFrozenColumn)
frozenRowsRows(viewPort) == Loop(0, Min2(viewPort.rowStopIndex, props.frozenRows) - 1)
frozenRowsColumns(viewPort) ==
  SelectSeq(Loop(viewPort.columnStartIndex, viewPort.columnStopIndex), NotFrozenColumn)
frozenColumnsRows(viewPort) ==
  SelectSeq(Loop(viewPort.rowStartIndex, viewPort.rowStopIndex), NotFrozenRow)
frozenColumnsColumns(viewPort) ==
  Loop(0, Min2(viewPort.columnStopIndex, props.frozenColumns) - 1)

\* variant: the set of the previous pass is kept
mergedCellRenderMap_kept == IF drawn = <<>> THEN {} ELSE drawn[1].mergedCellRenderMap

\* const mergedCellRenderMap = new Set()
mergedCellRenderMap == {}

\* the body of the inner loop of a walk for the cells from i on: a merged
\* cell whose region is in the set is skipped, every other cell is drawn
\* with the coordinates and the extent of its region
RECURSIVE drawCells(_, _, _, _)
drawCells(walked, cells, i, walk) ==
  IF i > Len(cells) THEN walked
  ELSE LET rowIndex == cells[i][1]
           columnIndex == cells[i][2]
           isMerged == isMergedCell(rowIndex, columnIndex)
           bounds == getCellBounds(rowIndex, columnIndex)
           cellId == cellIdentifier(bounds.top, bounds.left)
           cell == [rowIndex |-> IF isMerged THEN bounds.top ELSE rowIndex,
                    columnIndex |-> IF isMerged THEN bounds.left ELSE columnIndex,
                    actualBottom |-> Max2(rowIndex, bounds.bottom),
                    actualRight |-> Max2(columnIndex, bounds.right),
                    isMergedCell |-> isMerged,
                    walk |-> walk]
       IN IF isMerged /\ cellId \in walked.mergedCellRenderMap
          THEN drawCells(walked, cells, i + 1, walk)
          ELSE drawCells([mergedCellRenderMap |->
                            IF isMerged THEN walked.mergedCellRenderMap \cup {cellId}
                            ELSE walked.mergedCellRenderMap,
                          cells |-> Append(walked.cells, cell)],
                         cells, i + 1, walk)

\* the four walks of a pass, in the order of the source
renderCells(viewPort) ==
  LET start == [mergedCellRenderMap |-> mergedCellRenderMap, cells |-> <<>>]
      main == drawCells(start, Enumerated(mainRows(viewPort), mainColumns(viewPort)),
                        1, "cells")
      frozenRows == drawCells(main, Enumerated(frozenRowsRows(viewPort),
                                               frozenRowsColumns(viewPort)),
                              1, "frozenRowCells")
      frozenColumns == drawCells(frozenRows, Enumerated(frozenColumnsRows(viewPort),
                                                        frozenColumnsColumns(viewPort)),
                                 1, "frozenColumnCells")
  IN drawCells(frozenColumns, Enumerated(frozenRowsRows(viewPort),
                                         frozenColumnsColumns(viewPort)),
               1, "frozenIntersectionCells")

\* the last index a sequence of drawn cells asks the cache of an axis for
lastDrawn(cells, rows, least) ==
  IF cells = <<>> THEN least
  ELSE Max2(least, CHOOSE m \in {IF rows THEN cells[i].actualBottom ELSE cells[i].actualRight :
                                   i \in 1..Len(cells)} :
                     \A i \in 1..Len(cells) :
                       m >= (IF rows THEN cells[i].actualBottom ELSE cells[i].actualRight))

\* grids for the render pass: MaxCount rows and columns of size MaxSize.
\* The lists of merged regions are those the specification admits: regions
\* that do not overlap.
RenderProps ==
  {[rowCount |-> MaxCount, columnCount |-> MaxCount,
    rowHeight |-> [i \in Indices |-> MaxSize], columnWidth |-> [i \in Indices |-> MaxSize],
    frozenRows |-> frozenRows, frozenColumns |-> frozenColumns,
    containerHeight |-> extent, containerWidth |-> extent,
    overscanCount |-> 1, showScrollbar |-> FALSE, snap |-> FALSE] :
     frozenRows \in 0..MaxFrozen, frozenColumns \in 0..MaxFrozen, extent \in {1, MaxExtent}}

InitRender ==
  /\ InitInstanceProps
  /\ props \in RenderProps
  /\ \E top \in Positions, left \in Positions :
       scrollState = [scrollTop |-> top * MaxSize, scrollLeft |-> left * MaxSize,
                      isScrolling |-> FALSE, verticalScrollDirection |-> "Down",
                      horizontalScrollDirection |-> "Right"]
  /\ resetIsScrollingTimeoutID = Null
  /\ wheelingRef = Null
  /\ verticalScrollRef = 0
  /\ horizontalScrollRef = 0
  /\ scrollEvents = {}
  /\ timeouts = NoTimeouts
  /\ frames = <<>>
  /\ elapsed = RESET_SCROLL_EVENTS_DEBOUNCE_INTERVAL
  /\ burst = 0
  /\ transitions = 0
  /\ inputs = 0
  /\ latest = <<>>
  /\ request = <<>>
  /\ mergedCells \in {regions \in RegionLists : NonOverlapping(regions)}
  /\ mergedCellMap = buildMergedCellMap(mergedCells)
  /\ drawn = <<>>
  /\ lastQuery = <<>>
  /\ callerArrays = [column |-> <<>>, row |-> <<>>]

\* a render pass: the range calculators, then the walks; the cache is left
\* measured up to the last row and column the pass asked for
Render ==
  /\ \E grid \in {rendered} :
     \E walked \in {renderCells(grid.viewPort)} :
       /\ SetRows(getItemMetadata(grid.row, lastDrawn(walked.cells, TRUE, 0),
                                  props.rowHeight, scale))
       /\ SetColumns(getItemMetadata(grid.column, lastDrawn(walked.cells, FALSE, 0),
                                     props.columnWidth, scale))
       /\ drawn' = <<[viewPort |-> grid.viewPort,
                     cells |-> walked.cells,
                     mergedCellRenderMap |-> walked.mergedCellRenderMap]>>
  /\ UNCHANGED <<scale, estimatedRowHeight, estimatedColumnWidth, mergedCells, mergedCellMap, lastQuery, callerArrays,
                 scrollVars>>

NextRender ==
  \/ Render

SpecRender == InitRender /\ [][NextRender]_vars

(***************************************************************************)
(* Hit-testing: getCellCoordsFromOffset, from a pointer position to the    *)
(* cell under it.  The stage is not transformed, so the inverse of its     *)
(* absolute transform maps a point to itself.                              *)
(***************************************************************************)
MaxPoint == 4        \* pointer coordinates range over 0..MaxPoint

\* containerRef.current?.getBoundingClientRect(): none, or a rect at (1, 1)
Rects == {<<>>, <<[x |-> 1, y |-> 1]>>}

\* the frozen boundaries, measured by the render body
frozenColumnWidth == getOffset(columnInst, props.frozenColumns, props.columnWidth, scale)
frozenRowHeight == getOffset(rowInst, props.frozenRows, props.rowHeight, scale)

isWithinFrozenColumnBoundary(x) == props.frozenColumns > 0 /\ x < frozenColumnWidth
isWithinFrozenRowBoundary(y) == props.frozenRows > 0 /\ y < frozenRowHeight

\* <<>> is null
getRelativePositionFromOffset(stage, rect, left, top) ==
  IF ~stage THEN <<>>
  ELSE IF rect # <<>>
       THEN <<[x |-> left - rect[1].x, y |-> top - rect[1].y]>>
       ELSE <<[x |-> left, y |-> top]>>

\* variant: the scroll offsets are added inside the frozen bands as well
getCellCoordsFromOffset_alwaysScrolled(stage, rect, left, top) ==
  LET pos == getRelativePositionFromOffset(stage, rect, left, top)
      row == getItemMetadata(rowInst, props.frozenRows, props.rowHeight, scale)
      column == getItemMetadata(columnInst, props.frozenColumns, props.columnWidth, scale)
  IN IF pos = <<>> THEN [cell |-> <<>>, row |-> row, column |-> column]
     ELSE LET x == pos[1].x
              y == pos[1].y
              rowStart == indexForOffset(row, y + scrollState.scrollTop,
                                         props.rowCount, props.rowHeight, scale)
              columnStart == indexForOffset(column, x + scrollState.scrollLeft,
                                            props.columnCount, props.columnWidth, scale)
              bounds == getCellBounds(rowStart.index, columnStart.index)
          IN [cell |-> <<[rowIndex |-> bounds.top, columnIndex |-> bounds.left]>>,
              row |-> rowStart.inst, column |-> columnStart.inst]

\* the cell (<<>> is null) and the caches the call leaves; the render that
\* made the callback has measured the frozen boundaries
getCellCoordsFromOffset(stage, rect, left, top) ==
  LET pos == getRelativePositionFromOffset(stage, rect, left, top)
      row == getItemMetadata(rowInst, props.frozenRows, props.rowHeight, scale)
      column == getItemMetadata(columnInst, props.frozenColumns, props.columnWidth, scale)
  IN IF pos = <<>> THEN [cell |-> <<>>, row |-> row, column |-> column]
     ELSE LET x == pos[1].x
              y == pos[1].y
              rowStart == indexForOffset(row, IF isWithinFrozenRowBoundary(y)
                                              THEN y ELSE y + scrollState.scrollTop,
                                         props.rowCount, props.rowHeight, scale)
              columnStart == indexForOffset(column, IF isWithinFrozenColumnBoundary(x)
                                                    THEN x ELSE x + scrollState.scrollLeft,
                                            props.columnCount, props.columnWidth, scale)
              bounds == getCellBounds(rowStart.index, columnStart.index)
          IN [cell |-> <<[rowIndex |-> bounds.top, columnIndex |-> bounds.left]>>,
              row |-> rowStart.inst, column |-> columnStart.inst]

\* getCellOffsetFromCoords: the indices it passes to getColumnOffset and to
\* getRowOffset, in the order of the calls (x, width; y, height)
getCellOffsetFromCoords(rowIndex, columnIndex) ==
  LET bounds == getCellBounds(rowIndex, columnIndex)
  IN [getColumnOffset |-> <<bounds.left, bounds.right + 1>>,
      getRowOffset |-> <<bounds.top, bounds.bottom + 1>>]

\* grids for hit-testing: MaxCount rows, each hidden or of size MaxSize, of
\* which 0..MaxFrozen are frozen, and MaxCount columns of size MaxSize, of
\* which the first is frozen.  The column axis is resolved by the code of
\* the row axis, with x and scrollLeft for y and scrollTop.
HitProps ==
  {[rowCount |-> MaxCount, columnCount |-> MaxCount,
    rowHeight |-> rowHeight, columnWidth |-> [i \in Indices |-> MaxSize],
    frozenRows |-> frozenRows, frozenColumns |-> 1,
    containerHeight |-> MaxExtent, containerWidth |-> MaxExtent,
    overscanCount |-> 1, showScrollbar |-> FALSE, snap |-> FALSE] :
     rowHeight \in ItemSizers(MaxCount), frozenRows \in 0..MaxFrozen}

\* a grid that is scrolled and has at most one merged region
InitHit ==
  /\ InitInstanceProps
  /\ props \in HitProps
  /\ \E top \in Positions :
       scrollState = [scrollTop |-> top, scrollLeft |-> MaxSize,
                      isScrolling |-> FALSE, verticalScrollDirection |-> "Down",
                      horizontalScrollDirection |-> "Right"]
  /\ resetIsScrollingTimeoutID = Null
  /\ wheelingRef = Null
  /\ verticalScrollRef = 0
  /\ horizontalScrollRef = 0
  /\ scrollEvents = {}
  /\ timeouts = NoTimeouts
  /\ frames = <<>>
  /\ elapsed = RESET_SCROLL_EVENTS_DEBOUNCE_INTERVAL
  /\ burst = 0
  /\ transitions = 0
  /\ inputs = 0
  /\ latest = <<>>
  /\ request = <<>>
  /\ mergedCells \in {regions \in RegionLists : Len(regions) <= 1}
  /\ mergedCellMap = buildMergedCellMap(mergedCells)
  /\ drawn = <<>>
  /\ lastQuery = <<>>
  /\ callerArrays = [column |-> <<>>, row |-> <<>>]

\* a pointer event over the first column or right of the frozen columns is
\* resolved to a cell
GetCellCoordsFromOffset ==
  /\ \E stage \in BOOLEAN, rect \in Rects, left \in {0, MaxPoint}, top \in 0..MaxPoint :
       \E hit \in {getCellCoordsFromOffset(stage, rect, left, top)} :
         /\ SetRows(hit.row)
         /\ SetColumns(hit.column)
  /\ UNCHANGED <<scrollVars, propVars>>

NextHit ==
  \/ GetCellCoordsFromOffset

SpecHit == InitHit /\ [][NextHit]_vars

(***************************************************************************)
(* Claims.                                                                 *)
(***************************************************************************)
\* a returned range [rowStartIndex, rowStopIndex, visibleStart, visibleStop]
\* lies in the grid
RangeInGrid(range, count) ==
  IF count = 0
  THEN range[1] = 0 /\ range[2] = 0
  ELSE /\ 0 <= range[1] /\ range[1] <= range[2] /\ range[2] <= count - 1
       /\ 0 <= range[3] /\ range[3] <= range[4] /\ range[4] <= count - 1

\* C1: for each axis and every count, size callback, scroll offset, container
\* extent, isScrolling flag, scroll direction and overscan count, the range
\* the calculator returns is within [0, count-1] with start <= stop when
\* count > 0, and is start = stop = 0 when count = 0.
C1_RangeWithinGrid ==
  \A count \in Counts, offset \in ScrollOffsets, extent \in Extents,
     isScrolling \in BOOLEAN, overscanCount \in OverscanCounts :
    \A itemSize \in ItemSizers(count) :
      /\ RowsExplored => \A direction \in {"Up", "Down"} :
           RangeInGrid(getVerticalRangeToRender(count, itemSize, offset, extent, isScrolling,
                                                direction, overscanCount).range, count)
      /\ ColumnsExplored => \A direction \in {"Left", "Right"} :
           RangeInGrid(getHorizontalRangeToRender(count, itemSize, offset, extent,
                                                  isScrolling, direction,
                                                  overscanCount).range, count)

\* C1 witness: rows are measured and a pass at the end of the grid asks for
\* overscan rows past the last row, which the clamp cuts off
C1_Witness ==
  /\ lastMeasuredRowIndex >= 1
  /\ \E count \in Counts \ {0}, offset \in ScrollOffsets :
       \E itemSize \in ItemSizers(count) :
         LET r == getVerticalRangeToRender(count, itemSize, offset, MaxExtent, TRUE,
                                           "Down", MaxOverscan).range
         IN r[4] = count - 1 /\ r[2] = count - 1 /\ r[1] > 0

\* the true geometry of a grid whose callback is itemSize: the leading edge
\* of item i and the total extent of count items
RECURSIVE TrueOffset(_, _, _)
TrueOffset(itemSize, i, sc) ==
  IF i = 0 THEN 0 ELSE TrueOffset(itemSize, i - 1, sc) + itemSize[i - 1] * sc

\* item i intersects the viewport [offset, offset + extent)
Intersects(itemSize, i, sc, offset, extent) ==
  /\ TrueOffset(itemSize, i, sc) < offset + extent
  /\ TrueOffset(itemSize, i + 1, sc) > offset
  /\ TrueOffset(itemSize, i, sc) < TrueOffset(itemSize, i + 1, sc)

\* the precise range [start, stop] of a pass covers the viewport
CoversViewport(pass, itemSize, sc, count, offset, extent) ==
  LET start == pass.range[3]
      stop == pass.range[4]
      map == pass.inst.metadataMap
  IN /\ start <= pass.inst.lastMeasuredIndex /\ stop <= pass.inst.lastMeasuredIndex
     /\ map[start].offset <= offset
     /\ offset < map[start].offset + map[start].size
     /\ stop = count - 1 \/ map[stop].offset + map[stop].size >= offset + extent
     /\ \A i \in 0..(count - 1) :
          Intersects(itemSize, i, sc, offset, extent) => start <= i /\ i <= stop

\* C2: for count > 0 and a scroll offset inside the content, the precise
\* range covers the viewport: the start item contains the scroll offset, the
\* stop item is the last one or its trailing edge is at or past the end of
\* the viewport, and no item that intersects the viewport lies outside the
\* precise range.
C2_PreciseRangeCoversViewport ==
  \A count \in Counts \ {0}, offset \in ScrollOffsets, extent \in Extents :
    \A itemSize \in ItemSizers(count) :
      offset < TrueOffset(itemSize, count, scale) =>
        /\ (RowsExplored /\ Coherent(rowInst, itemSize, scale)) =>
             CoversViewport(getVerticalRangeToRender(count, itemSize, offset, extent,
                                                     FALSE, "Down", 1),
                            itemSize, scale, count, offset, extent)
        /\ (ColumnsExplored /\ Coherent(columnInst, itemSize, scale)) =>
             CoversViewport(getHorizontalRangeToRender(count, itemSize, offset, extent,
                                                       FALSE, "Right", 1),
                            itemSize, scale, count, offset, extent)

\* C2 witness: the first row is measured, and a pass scrolled past the first
\* row stops before the last row
C2_Witness ==
  /\ lastMeasuredRowIndex >= 0
  /\ \E count \in Counts \ {0}, offset \in ScrollOffsets \ {0}, extent \in Extents \ {0} :
       \E itemSize \in ItemSizers(count) :
         /\ Coherent(rowInst, itemSize, scale)
         /\ offset < TrueOffset(itemSize, count, scale)
         /\ LET r == getVerticalRangeToRender(count, itemSize, offset, extent, FALSE,
                                              "Down", 1).range
            IN r[3] > 0 /\ r[4] < count - 1

\* the measured entries of one axis form a chain
OffsetChain(inst, estimatedItemSize) ==
  \A i \in Indices :
    i + 1 <= inst.lastMeasuredIndex =>
      /\ i \in DOMAIN inst.metadataMap
      /\ (i + 1) \in DOMAIN inst.metadataMap
      /\ \A itemSize \in ItemSizers(MaxCount) :
           /\ getOffset(inst, i + 1, itemSize, scale)
                = getOffset(inst, i, itemSize, scale) + getSize(inst, i, estimatedItemSize)
           /\ getOffset(inst, i, itemSize, scale) <= getOffset(inst, i + 1, itemSize, scale)

\* C3: in every reachable state of the size cache, for each axis and every
\* index i such that i and i+1 are both measured, getOffset(i+1) equals
\* getOffset(i) + getSize(i), so offsets are non-decreasing in the index.
C3_OffsetChain ==
  /\ RowsExplored => OffsetChain(rowInst, estimatedRowHeight)
  /\ ColumnsExplored => OffsetChain(columnInst, estimatedColumnWidth)

\* C3 witness: row 1 was marked for a resize and rows 0..2 were measured
\* again, row 1 now hidden between two visible rows
C3_Witness ==
  /\ lastMeasuredRowIndex = 2
  /\ recalcRowIndices = {1}
  /\ rowMetadataMap[0].size = MaxSize * scale
  /\ rowMetadataMap[1].size = 0
  /\ rowMetadataMap[2].offset = MaxSize * scale

\* the round trip from a measured index of one axis to its offset and back,
\* for the indices that satisfy Covered
RoundTrip(inst, Covered(_)) ==
  \A count \in Counts, i \in Indices :
    (i < count /\ i <= inst.lastMeasuredIndex /\ Covered(i)) =>
      \A itemSize \in ItemSizers(count) :
        indexForOffset(inst, getOffset(inst, i, itemSize, scale), count, itemSize,
                       scale).index = i

\* C4 as stated: for each axis and every measured index i in [0, count),
\* indexForOffset(getOffset(i)) = i.
C4_RoundTripEveryIndex ==
  /\ RowsExplored => RoundTrip(rowInst, LAMBDA i : TRUE)
  /\ ColumnsExplored => RoundTrip(columnInst, LAMBDA i : TRUE)

\* C4 amended: for each axis and every measured index i in [0, count) whose
\* size is not zero, indexForOffset(getOffset(i)) = i.
C4_RoundTripNonZeroSize ==
  /\ RowsExplored =>
       RoundTrip(rowInst, LAMBDA i : getSize(rowInst, i, estimatedRowHeight) # 0)
  /\ ColumnsExplored =>
       RoundTrip(columnInst, LAMBDA i : getSize(columnInst, i, estimatedColumnWidth) # 0)

\* C4 witness: a pass has measured a visible row that follows a hidden row,
\* so two measured rows share an offset
C4_Witness ==
  /\ lastMeasuredRowIndex >= 1
  /\ getSize(rowInst, 0, estimatedRowHeight) = 0
  /\ getSize(rowInst, 1, estimatedRowHeight) # 0
  /\ indexForOffset(rowInst, getOffset(rowInst, 1, [i \in 0..1 |-> MaxSize], scale), 2,
                    [i \in 0..1 |-> MaxSize], scale).index = 1

\* a linear scan from index i over the true sizes: the first item whose
\* trailing edge lies past the offset
RECURSIVE linearScan(_, _, _, _, _)
linearScan(itemSize, sc, i, leading, offset) ==
  IF offset < leading + itemSize[i] * sc
  THEN i
  ELSE linearScan(itemSize, sc, i + 1, leading + itemSize[i] * sc, offset)

\* the resolver of one axis agrees with the linear scan
AgreesWithScan(inst) ==
  \A count \in Counts \ {0}, offset \in ScrollOffsets :
    \A itemSize \in ItemSizers(count) :
      (Coherent(inst, itemSize, scale) /\ offset < TrueOffset(itemSize, count, scale)) =>
        LET found == indexForOffset(inst, offset, count, itemSize, scale)
            i == found.index
        IN /\ i = linearScan(itemSize, scale, 0, 0, offset)
           /\ i <= found.inst.lastMeasuredIndex
           /\ found.inst.metadataMap[i].offset <= offset
           /\ offset < found.inst.metadataMap[i].offset + found.inst.metadataMap[i].size

\* C5: for every offset in [0, total content extent) and every cache fill
\* level, indexForOffset returns the smallest index whose interval
\* [getOffset(i), getOffset(i) + getSize(i)) contains the offset: the index a
\* linear scan from index 0 over the true sizes returns.
C5_IndexForOffsetIsLinearScan ==
  /\ RowsExplored => AgreesWithScan(rowInst)
  /\ ColumnsExplored => AgreesWithScan(columnInst)

\* C5 witness: rows 1 and 2 were invalidated after a pass, their entries are
\* still cached, and an offset beyond the measured row 0 resolves to row 2
C5_Witness ==
  /\ lastMeasuredRowIndex = 0
  /\ 2 \in DOMAIN rowMetadataMap
  /\ \E offset \in ScrollOffsets, itemSize \in ItemSizers(3) :
       /\ Coherent(rowInst, itemSize, scale)
       /\ offset < TrueOffset(itemSize, 3, scale)
       /\ itemSize[2] * scale # rowMetadataMap[2].size
       /\ indexForOffset(rowInst, offset, 3, itemSize, scale).index = 2

\* after the invalidation `reset` of one axis from fromIndex, the query
\* getOffset(k) recomputes the entries fromIndex..k from itemSize
Recomputed(reset, estimatedItemSize, fromIndex, k, itemSize) ==
  LET after == getItemMetadata(reset, k, itemSize, scale)
      map == after.metadataMap
  IN /\ reset.lastMeasuredIndex < fromIndex
     /\ after.lastMeasuredIndex >= k
     /\ \A j \in fromIndex..k :
          /\ map[j].size = itemSize[j] * scale
          /\ map[j].offset = IF j = 0 THEN 0 ELSE map[j - 1].offset + map[j - 1].size
          /\ getSize(after, j, estimatedItemSize) = map[j].size
     /\ getOffset(after, k, itemSize, scale) = map[k].offset

\* C6: for any fromIndex <= k, after resetAfterIndices from fromIndex
\* lastMeasuredIndex < fromIndex; after a following getOffset(k)
\* lastMeasuredIndex >= k and the entries fromIndex..k are recomputed from the
\* current size callback, so no later query returns an offset or a size
\* derived from a pre-invalidation size of an index >= fromIndex.
C6_InvalidateThenQueryRecomputes ==
  \A k \in Indices, fromIndex \in Indices :
    fromIndex <= k =>
      \A itemSize \in ItemSizers(k + 1) :
        /\ RowsExplored =>
             Recomputed(resetAfterIndices(columnInst, rowInst, Undefined, fromIndex).row,
                        estimatedRowHeight, fromIndex, k, itemSize)
        /\ ColumnsExplored =>
             Recomputed(resetAfterIndices(columnInst, rowInst, fromIndex, Undefined).column,
                        estimatedColumnWidth, fromIndex, k, itemSize)

\* C6 witness: rows 1 and 2 were measured and then invalidated from row 1;
\* their former entries are still cached and the current callback gives
\* row 2 another size
C6_Witness ==
  /\ lastMeasuredRowIndex = 0
  /\ 2 \in DOMAIN rowMetadataMap
  /\ \E itemSize \in ItemSizers(3) :
       /\ itemSize[2] * scale # rowMetadataMap[2].size
       /\ getItemMetadata(rowInst, 2, itemSize, scale).metadataMap[2].size
            = itemSize[2] * scale

\* `after` is the axis `before` invalidated from fromIndex
Invalidated(before, after, fromIndex) ==
  /\ after.lastMeasuredIndex <= before.lastMeasuredIndex
  /\ after.lastMeasuredIndex <= fromIndex - 1
  /\ after.lastMeasuredIndex \in {before.lastMeasuredIndex, fromIndex - 1}
  /\ fromIndex > before.lastMeasuredIndex + 1 =>
       after.lastMeasuredIndex = before.lastMeasuredIndex
  /\ after.recalcIndices = {}
  /\ after.metadataMap = before.metadataMap

\* C7: resetAfterIndices from fromIndex sets lastMeasuredIndex of the axis to
\* min(previous lastMeasuredIndex, fromIndex - 1) and empties its recalc
\* list; it never raises lastMeasuredIndex and leaves it alone when
\* fromIndex > lastMeasuredIndex + 1.
C7_InvalidateLowersAndClears ==
  \A fromIndex \in Indices :
    /\ RowsExplored =>
         Invalidated(rowInst,
                     resetAfterIndices(columnInst, rowInst, Undefined, fromIndex).row,
                     fromIndex)
    /\ ColumnsExplored =>
         Invalidated(columnInst,
                     resetAfterIndices(columnInst, rowInst, fromIndex, Undefined).column,
                     fromIndex)

\* C7 witness: rows 0..2 are measured and rows 0 and 2 are marked, so an
\* invalidation from row 1 lowers lastMeasuredRowIndex and empties the list
C7_Witness ==
  /\ lastMeasuredRowIndex = 2
  /\ recalcRowIndices = {0, 2}
  /\ resetAfterIndices(columnInst, rowInst, Undefined, 1).row.lastMeasuredIndex = 0

\* `after` is the axis `before` with `indices` marked for a resize
MarkedStale(before, after, estimatedItemSize, indices) ==
  /\ after.recalcIndices = indices
  /\ after.metadataMap = before.metadataMap
  /\ indices = {} => after.lastMeasuredIndex = before.lastMeasuredIndex
  /\ indices # {} =>
       after.lastMeasuredIndex >= Min2(before.lastMeasuredIndex, MathMin(indices) - 1)
  /\ \A j \in Indices :
       (j <= before.lastMeasuredIndex /\ \A i \in indices : j < i) =>
         j <= after.lastMeasuredIndex
  /\ \A i \in indices :
       \A itemSize \in ItemSizers(i + 1) :
         LET queried == getItemMetadata(after, i, itemSize, scale)
             map == queried.metadataMap
         IN /\ queried.lastMeasuredIndex >= i
            /\ map[i].size = itemSize[i] * scale
            /\ map[i].offset = IF i = 0 THEN 0 ELSE map[i - 1].offset + map[i - 1].size
            /\ getSize(queried, i, estimatedItemSize) = map[i].size

\* C8: resizeColumns / resizeRows mark exactly the given indices in the
\* recalc list of the axis and invalidate no entry below the smallest given
\* index: afterwards lastMeasuredIndex >= min(previous lastMeasuredIndex,
\* min(indices) - 1), and a query for a marked index returns a value
\* recomputed from the current size callback.
C8_MarkStale ==
  \A indices \in SUBSET Indices :
    /\ RowsExplored =>
         MarkedStale(rowInst, resizeRows(columnInst, rowInst, indices).row,
                     estimatedRowHeight, indices)
    /\ ColumnsExplored =>
         MarkedStale(columnInst, resizeColumns(columnInst, rowInst, indices).column,
                     estimatedColumnWidth, indices)

\* C8 witness: rows 0..2 were measured, then rows 1 and 2 were resized; row 0
\* is still measured and the entries of rows 1 and 2 are to be recomputed
C8_Witness ==
  /\ recalcRowIndices = {1, 2}
  /\ lastMeasuredRowIndex = 0
  /\ DOMAIN rowMetadataMap = 0..2

\* the entries of one axis up to lastMeasuredIndex exist, and a query above
\* lastMeasuredIndex fills forward from lastMeasuredIndex + 1
FilledForward(inst) ==
  /\ \A j \in 0..inst.lastMeasuredIndex : j \in DOMAIN inst.metadataMap
  /\ \A index \in Indices :
       index > inst.lastMeasuredIndex =>
         \A itemSize \in ItemSizers(index + 1) :
           LET after == getItemMetadata(inst, index, itemSize, scale)
               map == after.metadataMap
           IN /\ after.lastMeasuredIndex >= index
              /\ \A j \in 0..inst.lastMeasuredIndex : map[j] = inst.metadataMap[j]
              /\ \A j \in (inst.lastMeasuredIndex + 1)..index :
                   /\ j \in DOMAIN map
                   /\ map[j].size = itemSize[j] * scale
                   /\ map[j].offset
                        = IF j = 0 THEN 0 ELSE map[j - 1].offset + map[j - 1].size

\* C9: in every reachable state, for each axis every index in
\* [0, lastMeasuredIndex] has an entry in the size map, and getOffset(index)
\* with index > lastMeasuredIndex fills the entries lastMeasuredIndex+1..index
\* with offset[i] = offset[i-1] + size(i-1) and leaves
\* lastMeasuredIndex >= index.
C9_MeasuredPrefixFilledForward ==
  /\ RowsExplored => FilledForward(rowInst)
  /\ ColumnsExplored => FilledForward(columnInst)

\* C9 witness: columns 0 and 1 are measured, column 2 is not, and a query
\* for column 2 extends the measured prefix
C9_Witness ==
  /\ lastMeasuredColumnIndex = 1
  /\ DOMAIN columnMetadataMap = 0..1
  /\ getItemMetadata(columnInst, 2, [i \in 0..2 |-> MaxSize],
                     scale).lastMeasuredIndex = 2

\* the sum of the cached sizes of the items 0..n-1 of one axis
RECURSIVE CachedExtent(_, _)
CachedExtent(inst, n) ==
  IF n = 0 THEN 0 ELSE CachedExtent(inst, n - 1) + inst.metadataMap[n - 1].size

\* the total of count items: the measured extent plus an estimate for the
\* unmeasured items, or the exact extent of the first count items
ExpectedTotal(inst, count, estimatedItemSize) ==
  IF inst.lastMeasuredIndex < count - 1
  THEN CachedExtent(inst, inst.lastMeasuredIndex + 1)
         + estimatedItemSize * (count - inst.lastMeasuredIndex - 1)
  ELSE CachedExtent(inst, count)

\* C10: getEstimatedTotal(count) is offset(lastMeasuredIndex + 1) +
\* estimatedItemSize * (count - lastMeasuredIndex - 1) when
\* lastMeasuredIndex < count - 1, and otherwise the exact cumulative offset
\* through count - 1 plus its size; in every reachable cache state, also
\* when index count or beyond is measured.
C10_EstimatedTotal ==
  \A count \in Counts :
    /\ RowsExplored =>
         estimatedTotalHeight(count) = ExpectedTotal(rowInst, count, estimatedRowHeight)
    /\ ColumnsExplored =>
         estimatedTotalWidth(count)
           = ExpectedTotal(columnInst, count, estimatedColumnWidth)

\* C10 witness: rows 0..2 are measured, more than a grid of 1 or 2 rows has,
\* and the total of a grid of 2 rows is the exact extent of rows 0 and 1
C10_Witness ==
  /\ lastMeasuredRowIndex = 2
  /\ rowMetadataMap[1].size # 0
  /\ rowMetadataMap[2].size # 0
  /\ estimatedTotalHeight(2) = rowMetadataMap[0].size + rowMetadataMap[1].size
  /\ estimatedTotalHeight(MaxCount + 1)
       = rowMetadataMap[2].offset + rowMetadataMap[2].size + estimatedRowHeight

(***************************************************************************)
(* C11: a burst of scroll events, each less than the debounce interval     *)
(* after the previous one, produces exactly one transition of isScrolling  *)
(* from true to false, and only once the interval has elapsed since the    *)
(* last event of the burst: never between two of its events.               *)
(***************************************************************************)
C11_OneClearAfterBurst ==
  /\ transitions <= 1
  /\ (burst > 0 /\ elapsed < RESET_SCROLL_EVENTS_DEBOUNCE_INTERVAL)
       => (transitions = 0 /\ scrollState.isScrolling)
  /\ (burst > 0 /\ elapsed = RESET_SCROLL_EVENTS_DEBOUNCE_INTERVAL /\ NoTimeoutDue)
       => (transitions = 1 /\ ~scrollState.isScrolling)

\* a burst of several events has ended and isScrolling has been cleared
C11_Witness ==
  /\ burst = MaxInputs
  /\ burst >= 2
  /\ transitions = 1
  /\ ~scrollState.isScrolling

WheelFrames == {i \in 1..Len(frames) : frames[i].kind = "wheel"}

C13_WheelCoalescedPerFrame ==
  /\ [](/\ Cardinality(WheelFrames) <= 1
        /\ (wheelingRef = Null) = (WheelFrames = {})
        /\ \A i \in WheelFrames : frames[i].id = wheelingRef)
  /\ [][(HandleWheel /\ wheelingRef # Null)
          => UNCHANGED <<frameVars, domVars, scrollState>>]_vars
  /\ [][WheelFrame => (\/ verticalScrollRef' = verticalScrollRef
                        \/ horizontalScrollRef' = horizontalScrollRef)]_vars

\* two wheel events arrived before a frame ran: one frame is pending
C13_Witness ==
  /\ inputs >= 2
  /\ wheelingRef # Null
  /\ Len(frames) = 1
  /\ burst = 0
  /\ scrollEvents = {}
  /\ verticalScrollRef = 0
  /\ horizontalScrollRef = 0

(***************************************************************************)
(* Scroll-to requests: what the claims observe.                            *)
(***************************************************************************)
\* the scroll offsets of the grid: those of the scroll containers when they
\* are rendered, else those of scrollState
VerticalOffset == IF showScrollbar THEN verticalScrollRef ELSE scrollState.scrollTop
HorizontalOffset == IF showScrollbar THEN horizontalScrollRef ELSE scrollState.scrollLeft
\* the offset an assignment of value leaves
Assigned(value) == IF showScrollbar THEN setScrollOffset(value) ELSE value

(***************************************************************************)
(* C14: last write wins.  When every deferred scroll-to request has run,   *)
(* the scroll offsets are those of the newest request, on each axis that   *)
(* request assigns.                                                        *)
(***************************************************************************)
C14_LastWriteWins ==
  (frames = <<>> /\ latest # <<>>) =>
    /\ latest[1].scrollTop # Undefined => VerticalOffset = Assigned(latest[1].scrollTop)
    /\ latest[1].scrollLeft # Undefined => HorizontalOffset = Assigned(latest[1].scrollLeft)

\* one axis of the observed scrollToItem call: the request, the grid it
\* found and what it planned
RowAxis ==
  LET call == request[1]
  IN [index |-> call.rowIndex, count |-> props.rowCount, itemSize |-> props.rowHeight,
      frozen |-> props.frozenRows, extent |-> props.containerHeight,
      scrollOffset |-> call.scrollTop, requested |-> call.align, align |-> call.rowAlign,
      planned |-> call.coords.scrollTop,
      startIndex |-> call.viewPort.rowStartIndex, stopIndex |-> call.viewPort.rowStopIndex,
      before |-> IF showScrollbar THEN call.top ELSE call.scrollTop,
      after |-> VerticalOffset,
      total |-> estimatedTotalHeight(props.rowCount)]
ColumnAxis ==
  LET call == request[1]
  IN [index |-> call.columnIndex, count |-> props.columnCount,
      itemSize |-> props.columnWidth,
      frozen |-> props.frozenColumns, extent |-> props.containerWidth,
      scrollOffset |-> call.scrollLeft, requested |-> call.align,
      align |-> call.columnAlign, planned |-> call.coords.scrollLeft,
      startIndex |-> call.viewPort.columnStartIndex,
      stopIndex |-> call.viewPort.columnStopIndex,
      before |-> IF showScrollbar THEN call.left ELSE call.scrollLeft,
      after |-> HorizontalOffset,
      total |-> estimatedTotalWidth(props.columnCount)]
Axes == {RowAxis, ColumnAxis}

\* the true geometry of the target of an axis
Leading(axis) == TrueOffset(axis.itemSize, axis.index, scale)
Trailing(axis) == TrueOffset(axis.itemSize, axis.index + 1, scale)
Extent(axis) == Trailing(axis) - Leading(axis)
FrozenExtent(axis) == TrueOffset(axis.itemSize, axis.frozen, scale)
Given(axis) == axis.index # Undefined
InFrozenRegion(axis) == Given(axis) /\ axis.index < axis.frozen
Fits(axis) == Extent(axis) <= axis.extent
\* the viewport bounds [0, max(0, estimatedTotal - viewportExtent)]
Bounded(axis, offset) == withinBounds(offset, axis.total, axis.extent)

\* the target lies more than the length of the rendered window after its
\* stop index, or before its start index
FarAfter(axis) ==
  Given(axis) /\ axis.index > axis.stopIndex + (axis.stopIndex - axis.startIndex)
FarBefore(axis) ==
  Given(axis) /\ axis.index < axis.startIndex - (axis.stopIndex - axis.startIndex)

\* the call chose to defer its scrollTo exactly when some axis is among the
\* far ones: while the frame is pending the offsets are those the call
\* found, and otherwise they are the planned ones
DeferredWhen(far) ==
  request # <<>> =>
    /\ request[1].isOutsideViewport = (far # {})
    /\ (frames # <<>>) => (far # {})
    /\ \A axis \in Axes :
         axis.after = IF frames # <<>> \/ axis.planned = Undefined
                      THEN axis.before ELSE Assigned(axis.planned)

(***************************************************************************)
(* C15 as stated: the offset of scrollToItem is applied in the next frame  *)
(* exactly when the target is far outside the rendered window on an axis,  *)
(* before its start or after its stop, and synchronously otherwise.        *)
(***************************************************************************)
FarOutside(axis) == FarAfter(axis) \/ FarBefore(axis)
C15_DeferredWhenFarOutside == DeferredWhen({axis \in Axes : FarOutside(axis)})

(***************************************************************************)
(* C15, amended: the offset is applied in the next frame exactly when the  *)
(* target index exceeds stop + (stop - start) of the rendered window on    *)
(* an axis; a target before the window is applied synchronously.           *)
(***************************************************************************)
C15_DeferredWhenFarAfter == DeferredWhen({axis \in Axes : FarAfter(axis)})

\* a deferred call whose frame is pending, and a call far before the window
C15_Witness ==
  /\ request # <<>>
  /\ frames # <<>>
  /\ \E axis \in Axes : FarAfter(axis) /\ axis.planned # Undefined /\ axis.after = axis.before
                         /\ Assigned(axis.planned) # axis.before

(***************************************************************************)
(* C16: a target inside the frozen region of an axis (index < frozen       *)
(* count, index 0 included) leaves the scroll offset of that axis as it    *)
(* was, for every alignment.                                               *)
(***************************************************************************)
C16_FrozenTargetNotScrolled ==
  request # <<>> =>
    \A axis \in Axes : InFrozenRegion(axis) => axis.after = axis.before

(***************************************************************************)
(* C17: a target whose extent exceeds the viewport extent of an axis is    *)
(* planned with alignment start on that axis, for every index (0           *)
(* included) and every requested alignment.                                *)
(***************************************************************************)
C17_OversizedDegradesToStart ==
  request # <<>> =>
    \A axis \in Axes : (Given(axis) /\ ~Fits(axis)) => axis.align = "start"

(***************************************************************************)
(* C18: with alignment end, a target outside the frozen region that fits   *)
(* in the viewport is planned at max(0, getOffset(target + 1) - extent);   *)
(* 100 rows of height 20 in a viewport of 600: row 80 is planned at        *)
(* offset(81) - 600 = 1020.                                                *)
(***************************************************************************)
\* the scenario, on the cache as the getRowOffset query of scrollToItem for
\* row 80 leaves it: rows 0..80 measured
C18_Scenario ==
  LET measured == Inst([i \in 0..80 |-> [offset |-> 20 * i, size |-> 20]], 80, {})
  IN planScroll(measured, 80, 100, [i \in 0..99 |-> 20],
                DEFAULT_ESTIMATED_ITEM_SIZE, 600, 0, 0, "end", 1).offset = 81 * 20 - 600

C18_EndAlignsTrailingEdge ==
  /\ C18_Scenario
  /\ request # <<>> =>
       \A axis \in Axes :
         (Given(axis) /\ ~InFrozenRegion(axis) /\ Fits(axis) /\ axis.requested = "end")
           => axis.planned = Max2(0, Trailing(axis) - axis.extent)

\* an end-aligned call whose target lies below the viewport and fits
C18_Witness ==
  /\ request # <<>>
  /\ \E axis \in Axes :
       /\ Given(axis) /\ ~InFrozenRegion(axis) /\ Fits(axis) /\ axis.requested = "end"
       /\ axis.index > 0
       /\ axis.planned = Trailing(axis) - axis.extent
       /\ axis.planned > 0

\* the smart plan of an axis: the current offset when the target is fully
\* visible after the frozen region, else the start-aligned offset when its
\* leading edge is above / left of it, else the end-aligned offset
IsVisible(axis) ==
  /\ Leading(axis) - FrozenExtent(axis) >= axis.scrollOffset
  /\ Trailing(axis) <= axis.scrollOffset + axis.extent
IsAbove(axis) == Leading(axis) - FrozenExtent(axis) < axis.scrollOffset
IsBelow(axis) == Trailing(axis) > axis.scrollOffset + axis.extent
SmartPlan(axis) ==
  IF IsVisible(axis) THEN axis.planned = axis.scrollOffset
  ELSE IF IsAbove(axis)
       THEN axis.planned = Bounded(axis, Leading(axis) - FrozenExtent(axis))
       ELSE axis.planned = Bounded(axis, Trailing(axis) - axis.extent)

PlannedWithinBounds ==
  \A axis \in Axes :
    axis.planned # Undefined =>
      (axis.planned >= 0 /\ axis.planned <= Max2(0, axis.total - axis.extent))

(***************************************************************************)
(* C20 as stated: with alignment start the planned offset is               *)
(* getOffset(target) - frozenOffset, and with every alignment the planned  *)
(* offset lies within [0, max(0, estimatedTotal - viewportExtent)].        *)
(***************************************************************************)
C20_StartAfterFrozenRegion ==
  request # <<>> =>
    /\ \A axis \in Axes :
         (Given(axis) /\ ~InFrozenRegion(axis) /\ axis.requested = "start")
           => axis.planned = Leading(axis) - FrozenExtent(axis)
    /\ PlannedWithinBounds

(***************************************************************************)
(* C20, amended: with alignment start the planned offset is                *)
(* getOffset(target) - frozenOffset unless that exceeds                    *)
(* max(0, estimatedTotal - viewportExtent), and then it is that bound;     *)
(* with every alignment the planned offset lies within the bounds.         *)
(***************************************************************************)
C20_StartAfterFrozenRegionWithinBounds ==
  request # <<>> =>
    /\ \A axis \in Axes :
         (Given(axis) /\ ~InFrozenRegion(axis) /\ axis.requested = "start")
           => axis.planned = Min2(Max2(0, axis.total - axis.extent),
                                  Leading(axis) - FrozenExtent(axis))
    /\ PlannedWithinBounds

\* a start-aligned call behind a frozen region, planned at the exact offset
C20_Witness ==
  /\ request # <<>>
  /\ \E axis \in Axes :
       /\ Given(axis) /\ ~InFrozenRegion(axis) /\ axis.requested = "start"
       /\ FrozenExtent(axis) > 0
       /\ axis.planned = Leading(axis) - FrozenExtent(axis)
       /\ axis.planned > 0

(***************************************************************************)
(* Overscan.                                                               *)
(***************************************************************************)
\* the overscan of an edge: 1 on the edge a scroll in progress moves away
\* from, else max(1, overscanCount)
EdgeOverscan(isScrolling, direction, edge, overscanCount) ==
  IF isScrolling /\ direction # edge THEN 1 ELSE Max2(1, overscanCount)

\* the range extends the precise range by the overscan of each edge, within
\* the grid
Overscanned(range, count, isScrolling, direction, backward, forward, overscanCount) ==
  /\ range[1] = Max2(0, range[3] - EdgeOverscan(isScrolling, direction, backward,
                                                overscanCount))
  /\ range[2] = Max2(0, Min2(count - 1,
                             range[4] + EdgeOverscan(isScrolling, direction, forward,
                                                     overscanCount)))

(***************************************************************************)
(* C21: overscan asymmetry, on both axes.  While isScrolling is true the   *)
(* edge the scroll moves away from gets an overscan of exactly 1 and the   *)
(* edge it moves toward gets max(1, overscanCount); while isScrolling is   *)
(* false both edges get max(1, overscanCount).  The overscanned range is   *)
(* the precise range extended by these amounts, within the grid.           *)
(***************************************************************************)
C21_OverscanAsymmetry ==
  \A count \in Counts, offset \in ScrollOffsets, extent \in Extents,
     isScrolling \in BOOLEAN, overscanCount \in OverscanCounts :
    \A itemSize \in ItemSizers(count) :
      /\ RowsExplored => \A direction \in {"Up", "Down"} :
           Overscanned(getVerticalRangeToRender(count, itemSize, offset, extent, isScrolling,
                                                direction, overscanCount).range,
                       count, isScrolling, direction, "Up", "Down", overscanCount)
      /\ ColumnsExplored => \A direction \in {"Left", "Right"} :
           Overscanned(getHorizontalRangeToRender(count, itemSize, offset, extent,
                                                  isScrolling, direction,
                                                  overscanCount).range,
                       count, isScrolling, direction, "Left", "Right", overscanCount)

\* C21 witness: columns are measured, and a pass scrolling Left from the
\* last column overscans two columns backward, while the same pass
\* scrolling Right overscans one
C21_Witness ==
  /\ lastMeasuredColumnIndex >= 1
  /\ \E count \in Counts, offset \in ScrollOffsets :
       \E itemSize \in ItemSizers(count) :
         LET left == getHorizontalRangeToRender(count, itemSize, offset, 1, TRUE, "Left",
                                                MaxOverscan).range
             right == getHorizontalRangeToRender(count, itemSize, offset, 1, TRUE, "Right",
                                                 MaxOverscan).range
         IN /\ Coherent(columnInst, itemSize, scale)
            /\ left[3] = 2 /\ left[1] = 0
            /\ right[3] = 2 /\ right[1] = 1

(***************************************************************************)
(* Merged cells.                                                           *)
(***************************************************************************)
GridCells == Indices \X Indices

\* canonicalCell, on a cell <<rowIndex, columnIndex>>
CanonicalCell(cell) ==
  LET actual == getActualCellCoords(cell[1], cell[2])
  IN <<actual.rowIndex, actual.columnIndex>>

Idempotent == \A cell \in GridCells : CanonicalCell(CanonicalCell(cell)) = CanonicalCell(cell)

(***************************************************************************)
(* C22 as stated: for every merged-region list and every cell c,           *)
(* canonicalCell(canonicalCell(c)) = canonicalCell(c).                     *)
(***************************************************************************)
C22_CanonicalCellIdempotent == Idempotent

(***************************************************************************)
(* C22, amended: for every list of non-overlapping merged regions and      *)
(* every cell c, canonicalCell(canonicalCell(c)) = canonicalCell(c).       *)
(***************************************************************************)
C22_CanonicalCellIdempotentNonOverlapping == NonOverlapping(mergedCells) => Idempotent

\* C22 witness: two disjoint regions, and a cell that is not the anchor of
\* its region
C22_Witness ==
  /\ Len(mergedCells) = 2
  /\ NonOverlapping(mergedCells)
  /\ \E cell \in GridCells :
       /\ isMergedCell(cell[1], cell[2])
       /\ CanonicalCell(cell) # cell
       /\ CanonicalCell(CanonicalCell(cell)) = CanonicalCell(cell)

(***************************************************************************)
(* C23: for a cell (r, c) that is inside no merged region, getCellBounds   *)
(* returns {top: r, left: c, bottom: r, right: c} and getActualCellCoords  *)
(* returns (r, c).                                                         *)
(***************************************************************************)
C23_NonMergedCellIsItsOwnRegion ==
  \A cell \in GridCells :
    (\A i \in 1..Len(mergedCells) : cell \notin getBoundedCells(mergedCells[i])) =>
      /\ getCellBounds(cell[1], cell[2]) = Area(cell[1], cell[2], cell[1], cell[2])
      /\ CanonicalCell(cell) = cell

\* C23 witness: a list with a region, and a cell off the diagonal outside it
C23_Witness ==
  /\ mergedCells # <<>>
  /\ \E cell \in GridCells :
       /\ cell[1] # cell[2]
       /\ \A i \in 1..Len(mergedCells) : cell \notin getBoundedCells(mergedCells[i])
       /\ ~isMergedCell(cell[1], cell[2])
       /\ getCellBounds(cell[1], cell[2]).bottom = cell[1]
       /\ getCellBounds(cell[1], cell[2]).right = cell[2]

\* the regions of the current list that contain a cell
Owners(cell) ==
  {i \in 1..Len(mergedCells) :
     /\ mergedCells[i].top <= cell[1] /\ cell[1] <= mergedCells[i].bottom
     /\ mergedCells[i].left <= cell[2] /\ cell[2] <= mergedCells[i].right}

(***************************************************************************)
(* C24: for a list of non-overlapping merged regions, isMergedCell holds   *)
(* exactly of the cells inside a region of the current list,               *)
(* getCellBounds returns that region and getActualCellCoords its (top,     *)
(* left); no cell resolves to a region that is not in the current list,    *)
(* also after the list has been replaced.                                  *)
(***************************************************************************)
C24_IndexOfCurrentList ==
  NonOverlapping(mergedCells) =>
    \A cell \in GridCells :
      /\ isMergedCell(cell[1], cell[2]) = (Owners(cell) # {})
      /\ \A i \in Owners(cell) :
           /\ getCellBounds(cell[1], cell[2]) = mergedCells[i]
           /\ CanonicalCell(cell) = <<mergedCells[i].top, mergedCells[i].left>>
      /\ isMergedCell(cell[1], cell[2]) =>
           \E i \in 1..Len(mergedCells) : getCellBounds(cell[1], cell[2]) = mergedCells[i]

\* C24 witness: a list of two disjoint regions of several cells each, which
\* has replaced another list
C24_Witness ==
  /\ Len(mergedCells) = 2
  /\ NonOverlapping(mergedCells)
  /\ \A i \in 1..2 : Cardinality(getBoundedCells(mergedCells[i])) >= 2
  /\ \A i \in 1..2 : \A cell \in getBoundedCells(mergedCells[i]) :
       getCellBounds(cell[1], cell[2]) = mergedCells[i]

(***************************************************************************)
(* The render pass.                                                        *)
(***************************************************************************)
\* the elements of a sequence
Elements(sequence) == {sequence[i] : i \in 1..Len(sequence)}

\* the cells the walks of a pass enumerate
EnumeratedCells(viewPort) ==
  Elements(Enumerated(mainRows(viewPort), mainColumns(viewPort)))
    \cup Elements(Enumerated(frozenRowsRows(viewPort), frozenRowsColumns(viewPort)))
    \cup Elements(Enumerated(frozenColumnsRows(viewPort), frozenColumnsColumns(viewPort)))
    \cup Elements(Enumerated(frozenRowsRows(viewPort), frozenColumnsColumns(viewPort)))

\* the drawn cells of a pass that draw a region
DrawnAs(region) ==
  {i \in 1..Len(drawn[1].cells) :
     /\ drawn[1].cells[i].isMergedCell
     /\ drawn[1].cells[i].rowIndex = region.top
     /\ drawn[1].cells[i].columnIndex = region.left}

(***************************************************************************)
(* C25: in one render pass a merged region (of a list of non-overlapping   *)
(* regions) of which the walks enumerate at least one cell is drawn        *)
(* exactly once, with its own extent, however many of its cells the        *)
(* scrollable, frozen-row, frozen-column and frozen-intersection walks     *)
(* enumerate; a region of which they enumerate none is not drawn.  The     *)
(* already-rendered set starts empty in every pass: after the pass it      *)
(* holds the anchors of the regions this pass drew, and nothing else.      *)
(***************************************************************************)
C25_MergedRegionDrawnOnce ==
  (drawn # <<>> /\ NonOverlapping(mergedCells)) =>
    /\ \A k \in 1..Len(mergedCells) :
         LET region == mergedCells[k]
         IN IF getBoundedCells(region) \cap EnumeratedCells(drawn[1].viewPort) # {}
            THEN /\ Cardinality(DrawnAs(region)) = 1
                 /\ \A i \in DrawnAs(region) :
                      /\ drawn[1].cells[i].actualBottom = region.bottom
                      /\ drawn[1].cells[i].actualRight = region.right
            ELSE DrawnAs(region) = {}
    /\ drawn[1].mergedCellRenderMap =
         {cellIdentifier(mergedCells[k].top, mergedCells[k].left) :
            k \in {j \in 1..Len(mergedCells) : DrawnAs(mergedCells[j]) # {}}}

\* C25 witness: a region that reaches from the frozen rows into the
\* scrollable area, enumerated by two walks and by several cells, drawn once
C25_Witness ==
  /\ drawn # <<>>
  /\ NonOverlapping(mergedCells)
  /\ \E k \in 1..Len(mergedCells) :
       LET region == mergedCells[k]
           viewPort == drawn[1].viewPort
       IN /\ getBoundedCells(region)
               \cap Elements(Enumerated(mainRows(viewPort), mainColumns(viewPort))) # {}
          /\ getBoundedCells(region)
               \cap Elements(Enumerated(frozenRowsRows(viewPort),
                                        frozenRowsColumns(viewPort))) # {}
          /\ Cardinality(getBoundedCells(region) \cap EnumeratedCells(viewPort)) >= 3
          /\ Cardinality(DrawnAs(region)) = 1

(***************************************************************************)
(* C26: frozen rows and columns are always rendered.  In every render      *)
(* pass, for every scroll offset, the frozen-row walk visits every row     *)
(* r < min(frozenRows, rowCount) and the frozen-column walk every column   *)
(* c < min(frozenColumns, columnCount), also when the frozen count         *)
(* reaches or exceeds the stop index of the rendered window.               *)
(***************************************************************************)
C26_FrozenAlwaysRendered ==
  drawn # <<>> =>
    /\ \A rowIndex \in 0..(Min2(props.frozenRows, props.rowCount) - 1) :
         rowIndex \in Elements(frozenRowsRows(drawn[1].viewPort))
    /\ \A columnIndex \in 0..(Min2(props.frozenColumns, props.columnCount) - 1) :
         columnIndex \in Elements(frozenColumnsColumns(drawn[1].viewPort))

\* the cache of the same measurements taken at scale 1: the entries up to
\* lastMeasuredIndex filled from the callback itemSize
AtScaleOne(inst, itemSize) ==
  Inst(fillMetadata(EmptyMap, 0, inst.lastMeasuredIndex, itemSize, 1),
       inst.lastMeasuredIndex, inst.recalcIndices)

\* the three queries of one axis return scale times what they return at
\* scale 1, and the extent of first..last computed from the size of last is
\* the distance between the leading edges of first and last + 1
ScaledConsistently(inst, estimatedItemSize) ==
  \A itemSize \in ItemSizers(MaxCount) :
    Coherent(inst, itemSize, scale) =>
      \E one \in {AtScaleOne(inst, itemSize)} :
        /\ \A index \in Indices :
             /\ getOffset(inst, index, itemSize, scale)
                  = scale * getOffset(one, index, itemSize, 1)
             /\ getSize(inst, index, estimatedItemSize)
                  = scale * getSize(one, index, estimatedItemSize)
        /\ \A count \in Counts :
             getEstimatedTotal(inst, count, estimatedItemSize)
               = scale * getEstimatedTotal(one, count, estimatedItemSize)
        /\ \A first \in Indices, last \in Indices :
             (first <= last /\ last + 1 \in Indices) =>
               \E measured \in {getItemMetadata(inst, last, itemSize, scale)} :
                 getOffset(inst, last, itemSize, scale)
                   - getOffset(inst, first, itemSize, scale)
                   + getSize(measured, last, estimatedItemSize)
                 = getOffset(inst, last + 1, itemSize, scale)
                     - getOffset(inst, first, itemSize, scale)

(***************************************************************************)
(* C27: the scale factor is applied consistently.  For every scale s > 0   *)
(* and every index, getOffset, getSize and getEstimatedTotal each return s *)
(* times the value they return at scale 1 for the same sizes, so an extent *)
(* computed as offset(last) - offset(first) + size(last) equals            *)
(* offset(last + 1) - offset(first).                                       *)
(***************************************************************************)
C27_ScaleAppliedConsistently ==
  /\ RowsExplored => ScaledConsistently(rowInst, estimatedRowHeight)
  /\ ColumnsExplored => ScaledConsistently(columnInst, estimatedColumnWidth)

\* getOffset issued twice with the same index: the second call returns what
\* the first returned and leaves the cache the first left
OffsetTwice(inst) ==
  \A index \in Indices :
    \A itemSize \in ItemSizers(index + 1) :
      \E once \in {getItemMetadata(inst, index, itemSize, scale)} :
        /\ getItemMetadata(once, index, itemSize, scale) = once
        /\ getOffset(once, index, itemSize, scale) = getOffset(inst, index, itemSize, scale)

\* the range calculator of the last query, called again with the arguments
\* of that query
QueryAgain ==
  LET q == lastQuery[1]
  IN IF q.axis = "row"
     THEN getVerticalRangeToRender(q.count, q.itemSize, q.scrollOffset, q.containerExtent,
                                   q.isScrolling, q.direction, q.overscanCount)
     ELSE getHorizontalRangeToRender(q.count, q.itemSize, q.scrollOffset, q.containerExtent,
                                     q.isScrolling, q.direction, q.overscanCount)

\* the cache of the axis of the last query
QueriedInst == IF lastQuery[1].axis = "row" THEN rowInst ELSE columnInst

\* resetAfterIndices applied twice with the same indices
ResetTwice ==
  \A columnIndex \in Indices \cup {Undefined}, rowIndex \in Indices \cup {Undefined} :
    \E once \in {resetAfterIndices(columnInst, rowInst, columnIndex, rowIndex)} :
      resetAfterIndices(once.column, once.row, columnIndex, rowIndex) = once

(***************************************************************************)
(* C28: the mutations of the Instance State are idempotent.  The same      *)
(* query (getOffset, a range calculator) issued twice with the same inputs *)
(* returns the same result, and the cache after the second call equals the *)
(* cache after the first; resetAfterIndices applied twice with the same    *)
(* index leaves the state it leaves when applied once.                     *)
(***************************************************************************)
C28_MutationsIdempotent ==
  /\ RowsExplored => OffsetTwice(rowInst)
  /\ ColumnsExplored => OffsetTwice(columnInst)
  /\ (lastQuery # <<>> /\ QueriedInst = lastQuery[1].inst) =>
       /\ QueryAgain.range = lastQuery[1].range
       /\ QueryAgain.inst = lastQuery[1].inst
  /\ ResetTwice

\* C28 witness: a range query that measured the three rows of a grid was
\* issued in a state where a reset had left row 2 above lastMeasuredIndex,
\* and the cache is as the query left it
C28_Witness ==
  /\ lastQuery # <<>>
  /\ lastQuery[1].axis = "row"
  /\ lastQuery[1].count = 3
  /\ lastQuery[1].range[3] = 1
  /\ lastQuery[1].range[4] = 2
  /\ rowInst = lastQuery[1].inst
  /\ lastMeasuredRowIndex = 2
  /\ resetAfterIndices(columnInst, rowInst, Undefined, 1).row # rowInst

\* a size callback answers for every index it is asked for: the callbacks
\* here answer for one index past the largest grid
WideItemSizers == ItemSizers(MaxCount + 1)

\* the walk of one axis from every start index of every grid
StopIndexBounded(inst) ==
  \A count \in Counts \ {0}, scrollOffset \in ScrollOffsets, containerExtent \in Extents :
    \A startIndex \in 0..(count - 1), itemSize \in WideItemSizers :
      \E stop \in {stopIndexForStart(inst, startIndex, scrollOffset, containerExtent,
                                      count, itemSize, scale)} :
        /\ stop.index \in startIndex..(count - 1)
        /\ stop.inst.lastMeasuredIndex >= stop.index
        /\ stop.index < count - 1 =>
             stop.inst.metadataMap[stop.index].offset + stop.inst.metadataMap[stop.index].size
               >= scrollOffset + containerExtent

(***************************************************************************)
(* C29: stopIndexForStart terminates for every start index, scroll offset  *)
(* and container extent, also when the container extent is larger than the *)
(* total content and when items have size 0, and its result never exceeds  *)
(* count - 1: the walk returns an index in startIndex..count - 1, and one   *)
(* below count - 1 only when the trailing edge of that item reaches that   *)
(* of the viewport.                                                        *)
(***************************************************************************)
C29_StopIndexTerminates ==
  /\ RowsExplored => StopIndexBounded(rowInst)
  /\ ColumnsExplored => StopIndexBounded(columnInst)

\* C29 witness: the rows of a grid of three are measured, the first two
\* hidden; a viewport taller than the content makes the walk from row 0 pass
\* the two rows of size 0 and stop at the last row
C29_Witness ==
  /\ lastMeasuredRowIndex = 2
  /\ rowMetadataMap[0].size = 0
  /\ rowMetadataMap[1].size = 0
  /\ rowMetadataMap[2].size = MaxSize * scale
  /\ \E itemSize \in WideItemSizers :
       /\ Coherent(rowInst, itemSize, scale)
       /\ TrueOffset(itemSize, 3, scale) < MaxExtent
       /\ stopIndexForStart(rowInst, 0, 0, MaxExtent, 3, itemSize, scale).index = 2

\* offsets below 0, as a scroll container reports them while it bounces
NegativeOffsets == (0 - MaxScroll)..(0 - 1)

\* the two resolvers on an empty axis, and on any axis below offset 0
EmptyOrNegative(inst) ==
  /\ \A offset \in NegativeOffsets \cup ScrollOffsets, containerExtent \in Extents :
       \A itemSize \in ItemSizers(0) :
         /\ indexForOffset(inst, offset, 0, itemSize, scale) = [inst |-> inst, index |-> 0]
         /\ stopIndexForStart(inst, 0, offset, containerExtent, 0, itemSize, scale)
              = [inst |-> inst, index |-> 0]
  /\ \A count \in Counts, offset \in NegativeOffsets, containerExtent \in Extents :
       \A itemSize \in ItemSizers(count) :
         /\ indexForOffset(inst, offset, count, itemSize, scale)
              = indexForOffset(inst, 0, count, itemSize, scale)
         /\ \A startIndex \in 0..(count - 1) :
              stopIndexForStart(inst, startIndex, offset, containerExtent, count, itemSize,
                                scale)
                = stopIndexForStart(inst, startIndex, 0, containerExtent, count, itemSize,
                                    scale)

(***************************************************************************)
(* C30: when count = 0, indexForOffset and stopIndexForStart both return 0 *)
(* and leave the Store unchanged: no entry is created, lastMeasuredIndex   *)
(* is unchanged and the size callback, which has no index to answer for,   *)
(* is not invoked.  A negative offset gives the same result as offset 0.   *)
(***************************************************************************)
C30_EmptyAxisAndNegativeOffset ==
  /\ RowsExplored => EmptyOrNegative(rowInst)
  /\ ColumnsExplored => EmptyOrNegative(columnInst)

\* C30 witness: the cache holds the rows of an earlier, larger grid, two of
\* them hidden; the resolvers asked about an empty grid leave it alone, and
\* a negative offset resolves to row 2, as offset 0 does
C30_Witness ==
  /\ lastMeasuredRowIndex = 2
  /\ rowMetadataMap[0].size = 0
  /\ rowMetadataMap[1].size = 0
  /\ \E itemSize \in ItemSizers(3) :
       /\ Coherent(rowInst, itemSize, scale)
       /\ indexForOffset(rowInst, 0 - 1, 3, itemSize, scale).index = 2
       /\ indexForOffset(rowInst, 0 - 1, 0, <<>>, scale) = [inst |-> rowInst, index |-> 0]

\* the index of the item under an offset of an axis whose callback is
\* itemSize: the linear scan, the last item for an offset past the content
TrueIndex(itemSize, count, offset) ==
  IF Max2(0, offset) >= TrueOffset(itemSize, count, scale)
  THEN count - 1
  ELSE linearScan(itemSize, scale, 0, 0, Max2(0, offset))

\* the top-left anchor of the region that owns a cell (the cell itself when
\* no region does), for a list of at most one region
AnchorOf(cell) ==
  IF Owners(cell) = {} THEN [rowIndex |-> cell[1], columnIndex |-> cell[2]]
  ELSE [rowIndex |-> mergedCells[1].top, columnIndex |-> mergedCells[1].left]

\* the offset of an axis a pointer coordinate stands for
HitOffset(coordinate, frozen, itemSize, scrolled) ==
  IF frozen > 0 /\ coordinate < TrueOffset(itemSize, frozen, scale)
  THEN coordinate
  ELSE coordinate + scrolled

(***************************************************************************)
(* C31: getCellCoordsFromOffset returns null only when no stage is         *)
(* available.  Otherwise it resolves the row from y alone when y lies      *)
(* inside the frozen-row band and from y + scrollTop otherwise (columns    *)
(* likewise with x and scrollLeft), and returns the top-left anchor of the *)
(* region that owns the hit cell; the result for a point in a frozen band  *)
(* does not depend on the scroll offset of that axis.                      *)
(***************************************************************************)
C31_HitResolvesFrozenBand ==
  \A stage \in BOOLEAN, rect \in Rects, left \in 0..MaxPoint, top \in 0..MaxPoint :
    \E hit \in {getCellCoordsFromOffset(stage, rect, left, top).cell} :
      /\ (hit = <<>>) = ~stage
      /\ stage =>
           LET x == IF rect = <<>> THEN left ELSE left - rect[1].x
               y == IF rect = <<>> THEN top ELSE top - rect[1].y
               rowIndex == TrueIndex(props.rowHeight, props.rowCount,
                                     HitOffset(y, props.frozenRows, props.rowHeight,
                                               scrollState.scrollTop))
               columnIndex == TrueIndex(props.columnWidth, props.columnCount,
                                        HitOffset(x, props.frozenColumns, props.columnWidth,
                                                  scrollState.scrollLeft))
           IN hit[1] = AnchorOf(<<rowIndex, columnIndex>>)

\* C31 witness: a grid scrolled by one row's height with one frozen row and a
\* region merging rows 1..2 of column 0; earlier hits have measured the
\* rows.  A point in the frozen band hits row 0 although the grid is
\* scrolled, and a point below it hits the region and resolves to its anchor
C31_Witness ==
  /\ props.frozenRows = 1
  /\ props.rowHeight = [i \in Indices |-> MaxSize]
  /\ scrollState.scrollTop = MaxSize
  /\ mergedCells = <<Area(1, 0, 2, 0)>>
  /\ lastMeasuredRowIndex = 2
  /\ getCellCoordsFromOffset(TRUE, <<>>, 0, 1).cell = <<[rowIndex |-> 0, columnIndex |-> 0]>>
  /\ getCellCoordsFromOffset(TRUE, <<>>, 0, MaxSize).cell
       = <<[rowIndex |-> 1, columnIndex |-> 0]>>
  /\ getCellCoordsFromOffset(FALSE, <<>>, 0, 1).cell = <<>>

\* the indices of a sequence of calls lie in [0, count)
InAxis(indices, count) == \A i \in 1..Len(indices) : indices[i] \in 0..(count - 1)

(***************************************************************************)
(* C32: callers clamp before calling the Store.  Every index that the      *)
(* render body (the frozen boundaries) and getCellOffsetFromCoords, for a  *)
(* cell of the grid, pass to getRowOffset / getColumnOffset lies in        *)
(* [0, count) of its axis.                                                 *)
(***************************************************************************)
C32_CallersClampIndices ==
  /\ InAxis(<<props.frozenRows>>, props.rowCount)
  /\ InAxis(<<props.frozenColumns>>, props.columnCount)
  /\ \A rowIndex \in 0..(props.rowCount - 1), columnIndex \in 0..(props.columnCount - 1) :
       \E calls \in {getCellOffsetFromCoords(rowIndex, columnIndex)} :
         /\ InAxis(calls.getRowOffset, props.rowCount)
         /\ InAxis(calls.getColumnOffset, props.columnCount)

\* the region of the list that appears last among those that contain a cell
LastOwner(cell) == CHOOSE i \in Owners(cell) : \A j \in Owners(cell) : i >= j

(***************************************************************************)
(* C33: when merged regions overlap, building the index and resolving any  *)
(* cell completes, and a cell that lies in several regions resolves        *)
(* (isMergedCell, getCellBounds, getActualCellCoords) to the region that   *)
(* appears last in the list.                                               *)
(***************************************************************************)
C33_LastRegisteredWins ==
  /\ mergedCellMap = buildMergedCellMap(mergedCells)
  /\ DOMAIN mergedCellMap = {cell \in GridCells : Owners(cell) # {}}
  /\ \A cell \in GridCells :
       Owners(cell) # {} =>
         /\ isMergedCell(cell[1], cell[2])
         /\ getCellBounds(cell[1], cell[2]) = mergedCells[LastOwner(cell)]
         /\ CanonicalCell(cell) = <<mergedCells[LastOwner(cell)].top,
                                    mergedCells[LastOwner(cell)].left>>

\* C33 witness: two regions that overlap in one cell, neither inside the
\* other, with different anchors; the cell resolves to the second
C33_Witness ==
  /\ mergedCells = <<Area(0, 0, 1, 1), Area(1, 1, 2, 2)>>
  /\ Owners(<<1, 1>>) = {1, 2}
  /\ getCellBounds(1, 1) = Area(1, 1, 2, 2)
  /\ CanonicalCell(<<1, 1>>) = <<1, 1>>
  /\ CanonicalCell(<<0, 0>>) = <<0, 0>>

(***************************************************************************)
(* C34: the row and column caches are independent.  resetAfterIndices with *)
(* the index of one axis, and resizeColumns / resizeRows, leave            *)
(* lastMeasuredIndex, the recalc set and the size map of the other axis    *)
(* unchanged, and resetAfterIndices with neither index changes nothing in  *)
(* the Instance State.                                                     *)
(***************************************************************************)
C34_AxesIndependent ==
  /\ \A index \in Indices :
       /\ resetAfterIndices(columnInst, rowInst, Undefined, index).column = columnInst
       /\ resetAfterIndices(columnInst, rowInst, index, Undefined).row = rowInst
  /\ \A indices \in SUBSET Indices :
       /\ resizeRows(columnInst, rowInst, indices).column = columnInst
       /\ resizeColumns(columnInst, rowInst, indices).row = rowInst
  /\ resetAfterIndices(columnInst, rowInst, Undefined, Undefined)
       = [column |-> columnInst, row |-> rowInst]

\* C34 witness: both axes are measured and hold indices to recalculate, and
\* a reset of the rows from row 1 on changes the row cache
C34_Witness ==
  /\ lastMeasuredRowIndex = 2
  /\ lastMeasuredColumnIndex = 1
  /\ recalcRowIndices = {2}
  /\ recalcColumnIndices = {1, 2}
  /\ resetAfterIndices(columnInst, rowInst, Undefined, 1).row # rowInst
  /\ resetAfterIndices(columnInst, rowInst, Undefined, 1).column = columnInst

\* a step in which the scroll event of a container is handled
VerticalEventHandled ==
  "vertical" \in scrollEvents /\ scrollEvents' = scrollEvents \ {"vertical"}
HorizontalEventHandled ==
  "horizontal" \in scrollEvents /\ scrollEvents' = scrollEvents \ {"horizontal"}

\* what a vertical scroll event does to the scroll state; the value of the
\* event is the scrollTop of its container
VerticalEventEffect ==
  /\ scrollState'.verticalScrollDirection
       = (IF scrollState.scrollTop > verticalScrollRef THEN "Up" ELSE "Down")
  /\ scrollState'.scrollTop = verticalScrollRef
  /\ scrollState'.scrollLeft = scrollState.scrollLeft
  /\ scrollState'.horizontalScrollDirection = scrollState.horizontalScrollDirection

HorizontalEventEffect ==
  /\ scrollState'.horizontalScrollDirection
       = (IF scrollState.scrollLeft > horizontalScrollRef THEN "Left" ELSE "Right")
  /\ scrollState'.scrollLeft = horizontalScrollRef
  /\ scrollState'.scrollTop = scrollState.scrollTop
  /\ scrollState'.verticalScrollDirection = scrollState.verticalScrollDirection

(***************************************************************************)
(* C35: a vertical scroll event sets verticalScrollDirection to Up exactly *)
(* when the previous scrollTop is greater than the new one and to Down     *)
(* otherwise (equal offsets give Down), sets scrollTop to the value of the *)
(* event and leaves scrollLeft and horizontalScrollDirection unchanged; a  *)
(* horizontal scroll event does the same with Left / Right and scrollLeft  *)
(* and leaves scrollTop and verticalScrollDirection unchanged.             *)
(***************************************************************************)
C35_ScrollEventSetsOneAxis ==
  [][/\ VerticalEventHandled => VerticalEventEffect
     /\ HorizontalEventHandled => HorizontalEventEffect]_vars

\* C35 witness: the grid was scrolled down, then up to row 1, then right:
\* the horizontal event has left the vertical direction Up
C35_Witness ==
  /\ scrollState.verticalScrollDirection = "Up"
  /\ scrollState.scrollTop = 1
  /\ scrollState.horizontalScrollDirection = "Right"
  /\ scrollState.scrollLeft = 1
  /\ scrollEvents = {}

\* the observed call names no row, or no column
OnlyColumn == request[1].rowIndex = Undefined
OnlyRow == request[1].columnIndex = Undefined

(***************************************************************************)
(* C36: a scroll request that names only one axis leaves the other axis    *)
(* unchanged.  scrollToItem with only columnIndex never changes scrollTop  *)
(* and with only rowIndex never changes scrollLeft, now or in the deferred *)
(* frame; scrollTo without a scrollbar updates only the coordinates that   *)
(* are given and changes neither isScrolling nor the scroll directions.    *)
(***************************************************************************)
C36_OtherAxisUnchanged ==
  request # <<>> =>
    /\ OnlyColumn =>
         /\ request[1].coords.scrollTop = Undefined
         /\ scrollState.scrollTop = request[1].scrollTop
         /\ verticalScrollRef = request[1].top
    /\ OnlyRow =>
         /\ request[1].coords.scrollLeft = Undefined
         /\ scrollState.scrollLeft = request[1].scrollLeft
         /\ horizontalScrollRef = request[1].left
    /\ ~showScrollbar =>
         /\ scrollState.scrollTop
              = (IF frames # <<>> \/ request[1].coords.scrollTop = Undefined
                 THEN request[1].scrollTop ELSE request[1].coords.scrollTop)
         /\ scrollState.scrollLeft
              = (IF frames # <<>> \/ request[1].coords.scrollLeft = Undefined
                 THEN request[1].scrollLeft ELSE request[1].coords.scrollLeft)
         /\ ~scrollState.isScrolling
         /\ scrollState.verticalScrollDirection = "Down"
         /\ scrollState.horizontalScrollDirection = "Right"
         /\ verticalScrollRef = request[1].top
         /\ horizontalScrollRef = request[1].left

\* C36 witness: without a scrollbar, a call that names only a column has
\* moved scrollLeft and nothing else
C36_Witness ==
  /\ request # <<>>
  /\ ~showScrollbar
  /\ frames = <<>>
  /\ OnlyColumn
  /\ request[1].columnIndex # Undefined
  /\ request[1].coords.scrollLeft # Undefined
  /\ scrollState.scrollLeft = request[1].coords.scrollLeft
  /\ scrollState.scrollLeft # request[1].scrollLeft
  /\ scrollState.scrollTop = request[1].scrollTop

(***************************************************************************)
(* C37: in every reachable state at most one isScrolling-reset timer is    *)
(* pending, and whenever isScrolling is true a reset timer is pending (the *)
(* flag can never stay true with no timer left to clear it); the timer     *)
(* handle is null exactly when no timer is pending.                        *)
(***************************************************************************)
C37_OneResetTimerPending ==
  /\ Cardinality(DOMAIN timeouts) <= 1
  /\ scrollState.isScrolling => DOMAIN timeouts # {}
  /\ (resetIsScrollingTimeoutID = Null) <=> (DOMAIN timeouts = {})
  /\ resetIsScrollingTimeoutID # Null => DOMAIN timeouts = {resetIsScrollingTimeoutID}

\* C37 witness: a second scroll event of a burst has replaced the timer of the
\* first, part of whose delay had passed, and isScrolling is true
C37_Witness ==
  /\ scrollState.isScrolling
  /\ burst >= 2
  /\ elapsed = 0
  /\ resetIsScrollingTimeoutID # Null
  /\ DOMAIN timeouts = {resetIsScrollingTimeoutID}
  /\ timeouts[resetIsScrollingTimeoutID] = RESET_SCROLL_EVENTS_DEBOUNCE_INTERVAL

(***************************************************************************)
(* C38: in every reachable state lastMeasuredIndex[axis] >= -1 for both    *)
(* axes, after any sequence of resetAfterIndices, resizeColumns /          *)
(* resizeRows (including an empty index list) and geometry queries.        *)
(***************************************************************************)
C38_LastMeasuredAtLeastMinusOne ==
  /\ lastMeasuredRowIndex >= -1
  /\ lastMeasuredColumnIndex >= -1
  /\ resizeRows(columnInst, rowInst, {}).row.lastMeasuredIndex = lastMeasuredRowIndex
  /\ resizeColumns(columnInst, rowInst, {}).column.lastMeasuredIndex
       = lastMeasuredColumnIndex

\* C38 witness: the rows were measured and then reset from index 0, the
\* columns are measured to the last one and an empty resize keeps them so
C38_Witness ==
  /\ lastMeasuredRowIndex = -1
  /\ DOMAIN rowMetadataMap # {}
  /\ lastMeasuredColumnIndex = MaxCount - 1
  /\ resizeColumns(columnInst, rowInst, {}).column.lastMeasuredIndex = MaxCount - 1

\* the array a caller holds is the recalc list of its axis while the list
\* refers to it
ArraysAreLists ==
  /\ (callerArrays.column # <<>> /\ callerArrays.column[1].aliased)
       => callerArrays.column[1].holds = recalcColumnIndices
  /\ (callerArrays.row # <<>> /\ callerArrays.row[1].aliased)
       => callerArrays.row[1].holds = recalcRowIndices

(***************************************************************************)
(* C39: resizeColumns(indices) and resizeRows(indices) never modify the    *)
(* index array passed by the caller: after the call and after any later    *)
(* render pass or effect that clears the recalc sets, the caller's array   *)
(* still holds the indices it was given.                                   *)
(***************************************************************************)
C39_CallerArrayKept ==
  /\ callerArrays.column # <<>>
       => callerArrays.column[1].holds = callerArrays.column[1].given
  /\ callerArrays.row # <<>>
       => callerArrays.row[1].holds = callerArrays.row[1].given

\* the vertical delta of a wheel event in pixels: a delta in lines
\* (deltaMode 1) counts scrollbarSize pixels a line
PixelsOf(deltaY, deltaMode) == IF deltaMode = 1 THEN deltaY * scrollbarSize ELSE deltaY

\* a wheel event that arrives now, with no frame pending, schedules one frame
\* for the dominant axis, with the position of that axis now plus the delta
WheelEventPlansDominantAxis ==
  (~snap /\ wheelingRef = Null) =>
    \A deltaX \in Deltas, deltaY \in Deltas, deltaMode \in {0, 1} :
      \E wheeled \in {handleWheel(deltaX, deltaY, deltaMode, wheelingRef, frames,
                                  horizontalScrollRef, verticalScrollRef)} :
        /\ Len(wheeled.frames) = Len(frames) + 1
        /\ \E frame \in {wheeled.frames[Len(wheeled.frames)]} :
             /\ frame.isHorizontal <=> (Abs(deltaX) > Abs(deltaY))
             /\ frame.value = (IF Abs(deltaX) > Abs(deltaY)
                               THEN horizontalScrollRef + deltaX
                               ELSE verticalScrollRef + PixelsOf(deltaY, deltaMode))

\* the frame of a wheel event assigns its value to its axis and to nothing else
WheelFrameEffect ==
  /\ scrollState' = scrollState
  /\ IF Head(frames).isHorizontal
     THEN /\ horizontalScrollRef' = setScrollOffset(Head(frames).value)
          /\ verticalScrollRef' = verticalScrollRef
     ELSE /\ verticalScrollRef' = setScrollOffset(Head(frames).value)
          /\ horizontalScrollRef' = horizontalScrollRef

\* a pending frame is as it was scheduled until it runs
PendingFrameKept ==
  (frames # <<>> /\ ~WheelFrame) => (frames' # <<>> /\ Head(frames') = Head(frames))

(***************************************************************************)
(* C40: a wheel adjustment applied in its animation frame changes only the *)
(* dominant axis (horizontal exactly when |deltaX| > |deltaY|, else        *)
(* vertical) and sets that axis to the scroll position read when the wheel *)
(* event arrived plus the delta (the vertical delta in pixels: a delta in  *)
(* lines is multiplied by scrollbarSize; the container keeps the value     *)
(* within its range).  With snap enabled a wheel event never schedules a   *)
(* frame callback.                                                         *)
(***************************************************************************)
C40_WheelFrameDominantAxis ==
  /\ []WheelEventPlansDominantAxis
  /\ [][WheelFrame => WheelFrameEffect]_vars
  /\ [][PendingFrameKept]_vars
  /\ [](snap => (frames = <<>> /\ wheelingRef = Null))
  /\ [][snap => UNCHANGED frameVars]_vars

\* C40 witness: the frame of a wheel event of one line down at scrollTop 0 is
\* pending; since the event, both containers have been dragged elsewhere
C40_Witness ==
  /\ ~snap
  /\ frames # <<>>
  /\ Head(frames).kind = "wheel"
  /\ ~Head(frames).isHorizontal
  /\ Head(frames).value = scrollbarSize
  /\ verticalScrollRef = MaxPosition
  /\ horizontalScrollRef # 0

====
